---------------------------- MODULE Spec2Model ----------------------------
(***************************************************************************)
(* RTO Optimiser: NDR proof validation, courier-event ingestion, NDR       *)
(* resolution and seller challenges, modelled from src/backend/server.py   *)
(* and src/backend/seller_routes.py.                                       *)
(*                                                                         *)
(* Conventions                                                             *)
(*  - A MongoDB collection is a sequence of documents in insertion order;  *)
(*    the document's "_id" (a fresh uuid4 in the code) is its position in  *)
(*    the sequence, so ids are fresh, unique and never reused.             *)
(*  - A Python Optional value is a sequence: <<>> is None, <<v>> is v.     *)
(*  - Times are minutes.  A stored datetime is its UTC wall clock, which   *)
(*    is how MongoDB keeps and returns datetimes.                          *)
(*  - Coordinates are metres north / east of (0 deg, 0 deg); over the few  *)
(*    kilometres used here the geodesic distance is the planar distance.   *)
(***************************************************************************)
EXTENDS Integers, Sequences, FiniteSets, TLC

(***************************************************************************)
(* Bounds of the model                                                     *)
(***************************************************************************)
MaxAddresses == 2
MaxEvents == 2
MaxChallenges == 1

(***************************************************************************)
(* Program constants                                                       *)
(***************************************************************************)
\* server.py:112  max_distance_meters: int = 200
max_distance_meters == 200
\* server.py:172  event["call_duration_sec"] >= 10
MinCallDurationSec == 10
\* server.py:592  timedelta(hours=2), in minutes
DisputeWindowMin == 120
\* server.py:45   TIMEZONE = pytz.timezone("Asia/Kolkata").  Attached with
\* datetime.replace(tzinfo=TIMEZONE) a pytz zone contributes its first
\* recorded offset, local mean time +5:53, not IST +5:30.
TimezoneReplaceOffsetMin == 353
\* server.py:423  "order_id": "test-order-id": the order reference of a
\* placeholder shipment; it is the _id of no order (order _ids are uuid4).
TestOrderId == 0
\* seller_routes.py:503  "fallback_challenge_<epoch>": the challenge id of a
\* fallback response; it is the _id of no Challenge (those are uuid4).
FallbackChallengeId == 0

(***************************************************************************)
(* Optional values and Python truthiness                                   *)
(***************************************************************************)
None == <<>>
Some(v) == <<v>>
IsNone(x) == x = <<>>
Val(x) == x[1]
\* bool(x) for an Optional number: None and 0 are falsy
Truthy(x) == x # <<>> /\ x[1] # 0

Last(s) == s[Len(s)]

(***************************************************************************)
(* Request inputs                                                          *)
(***************************************************************************)
OrderIds == {"o1"}
BrandIds == {"b1"}
ShipmentIds == {"s1"}
Carriers == {"Delhivery"}

\* delivery_address payloads: a geocoded address, one on the equator
\* (latitude 0.0), one without coordinates, one lacking line1/city/pincode
AddressInputs ==
    { [line1 |-> "12 MG Road", city |-> "Bengaluru", pincode |-> "560001",
       latitude |-> Some(1000), longitude |-> Some(1000)],
      [line1 |-> "1 Equator St", city |-> "Pontianak", pincode |-> "78111",
       latitude |-> Some(0), longitude |-> Some(1000)],
      [line1 |-> "12 MG Road", city |-> "Bengaluru", pincode |-> "560001",
       latitude |-> None, longitude |-> None] }

\* courier GPS fixes <<gps_latitude, gps_longitude>>
GpsInputs ==
    { <<None, None>>,
      <<Some(1000), Some(1000)>>,
      <<Some(1200), Some(1000)>>,
      <<Some(1201), Some(1000)>>,
      <<Some(0), Some(1000)>>,
      <<Some(100), Some(1000)>>,
      <<Some(20000000), Some(1000)>> }

CallInputs == { None, Some(0), Some(9), Some(10) }

\* <<event_code, ndr_code>>
CodeInputs ==
    { <<"NDR", Some("CUSTOMER_UNAVAILABLE")>>,
      <<"NDR", Some("ADDRESS_ISSUE")>>,
      <<"NDR", None>>,
      <<"DELIVERED", None>>,
      <<"DELIVERED", Some("CUSTOMER_UNAVAILABLE")>> }

\* ISO-8601 timestamps: [wall, offset] is wall-clock minute `wall` with UTC
\* offset `offset` (Some(0) is a "Z" suffix, None a naive timestamp);
\* "malformed" is a string datetime.fromisoformat rejects.
TimestampInputs ==
    { [iso |-> TRUE, wall |-> 0, offset |-> Some(0)],
      [iso |-> TRUE, wall |-> 330, offset |-> Some(330)],
      [iso |-> TRUE, wall |-> 352, offset |-> None],
      [iso |-> FALSE, wall |-> 0, offset |-> None] }

\* the instants at which requests arrive
Instants == {0, 119, 121}

\* customer phone numbers, and the texts customers send (as received: the
\* handler strips and lower-cases them)
Phones == {"+919876543210"}
Messages == {"1", "2", "3", "4", " Reschedule ", "help", "ok"}

(***************************************************************************)
(* Utility functions                                                       *)
(***************************************************************************)
\* datetime.fromisoformat(s.replace('Z', '+00:00')) followed by the store's
\* conversion to UTC: an aware datetime is shifted by its offset, a naive one
\* is kept as it is.
fromisoformat_raises(ts) == ~ts.iso
fromisoformat(ts) ==
    IF IsNone(ts.offset) THEN ts.wall ELSE ts.wall - Val(ts.offset)

\* geopy.distance.geodesic raises ValueError for a latitude outside
\* [-90, 90] degrees; 90 degrees of latitude is the quarter meridian,
\* 10 001 966 m.
geodesic_raises(lat1, lng1, lat2, lng2) ==
    \/ lat1 > 10001966 \/ lat1 < -10001966
    \/ lat2 > 10001966 \/ lat2 < -10001966

\* square of geodesic(...).meters
geodesic_m2(lat1, lng1, lat2, lng2) ==
    (lat1 - lat2) * (lat1 - lat2) + (lng1 - lng2) * (lng1 - lng2)

validate_gps_proximity_AcceptOnError(lat1, lng1, lat2, lng2) ==
    IF geodesic_raises(lat1, lng1, lat2, lng2)
    THEN TRUE
    ELSE geodesic_m2(lat1, lng1, lat2, lng2)
            <= max_distance_meters * max_distance_meters

validate_gps_proximity(lat1, lng1, lat2, lng2) ==
    IF geodesic_raises(lat1, lng1, lat2, lng2)
    THEN FALSE
    ELSE geodesic_m2(lat1, lng1, lat2, lng2)
            <= max_distance_meters * max_distance_meters

(***************************************************************************)
(* NDRProofValidator.validate_proof_of_attempt                             *)
(***************************************************************************)
GpsPresent(event, delivery_address) ==
    /\ Truthy(event.gps_latitude) /\ Truthy(event.gps_longitude)
    /\ Truthy(delivery_address.latitude) /\ Truthy(delivery_address.longitude)

CallValid(event) ==
    Truthy(event.call_duration_sec)
        /\ Val(event.call_duration_sec) >= MinCallDurationSec

validate_proof_of_attempt_SilentCallFailure(event, delivery_address) ==
    IF event.event_code # "NDR"
          \/ event.ndr_code # Some("CUSTOMER_UNAVAILABLE")
    THEN [is_valid |-> TRUE, gps_valid |-> FALSE, call_valid |-> FALSE,
          violations |-> <<>>]
    ELSE
      LET gps_valid ==
              GpsPresent(event, delivery_address)
              /\ validate_gps_proximity(
                    Val(event.gps_latitude), Val(event.gps_longitude),
                    Val(delivery_address.latitude),
                    Val(delivery_address.longitude))
          gps_violation ==
              IF GpsPresent(event, delivery_address)
              THEN IF gps_valid THEN <<>>
                   ELSE <<"GPS location not within 200m of delivery address">>
              ELSE <<"Missing GPS coordinates">>
          call_valid == CallValid(event)
      IN [is_valid |-> gps_valid /\ call_valid,
          gps_valid |-> gps_valid,
          call_valid |-> call_valid,
          violations |-> gps_violation]

validate_proof_of_attempt(event, delivery_address) ==
    IF event.event_code # "NDR"
          \/ event.ndr_code # Some("CUSTOMER_UNAVAILABLE")
    THEN [is_valid |-> TRUE, gps_valid |-> FALSE, call_valid |-> FALSE,
          violations |-> <<>>]
    ELSE
      LET gps_valid ==
              GpsPresent(event, delivery_address)
              /\ validate_gps_proximity(
                    Val(event.gps_latitude), Val(event.gps_longitude),
                    Val(delivery_address.latitude),
                    Val(delivery_address.longitude))
          gps_violation ==
              IF GpsPresent(event, delivery_address)
              THEN IF gps_valid THEN <<>>
                   ELSE <<"GPS location not within 200m of delivery address">>
              ELSE <<"Missing GPS coordinates">>
          call_valid == CallValid(event)
          call_violation ==
              IF call_valid THEN <<>>
              ELSE <<"Call duration less than 10 seconds or missing">>
      IN [is_valid |-> gps_valid /\ call_valid,
          gps_valid |-> gps_valid,
          call_valid |-> call_valid,
          violations |-> gps_violation \o call_violation]

(***************************************************************************)
(* State: the MongoDB collections (server.py:59-70), the wall clock and    *)
(* the request last served with the response it got.                       *)
(***************************************************************************)
VARIABLES
    now,             \* get_current_time(), as a UTC instant in minutes
    brands,          \* set of brand _ids
    addresses,       \* collections["addresses"]
    orders,          \* collections["orders"]
    items,           \* collections["items"]
    shipments,       \* collections["shipments"]
    courier_events,  \* collections["courier_events"]
    ndr_challenges,  \* collections["ndr_challenges"]
    response,        \* [op, req, status, body] of the request last served
    collection_bool_raises,
                     \* whether truth-testing a Motor collection raises
                     \* NotImplementedError (the collection delegates __bool__
                     \* to PyMongo >= 4) or yields True (older drivers): fixed
                     \* by the installed driver, read by seller_routes.py:428
    inflight,        \* the two requests being served concurrently, each at
                     \* one of its awaits, with the store they started from;
                     \* <<>> while requests are served one at a time
    pending_responses
                     \* whatsapp_service.pending_responses, the dict of the
                     \* module-level WhatsAppNDRService (whatsapp_service.py:
                     \* 30, 374): phone number -> pending entry

vars == <<now, brands, addresses, orders, items, shipments, courier_events,
          ndr_challenges, response, collection_bool_raises, inflight,
          pending_responses>>

Ids(coll) == 1..Len(coll)

\* collection.find_one({"order_id": order_id}) as a set of matching _ids
OrdersByOrderId(order_id) == {i \in Ids(orders) : orders[i].order_id = order_id}
ShipmentsByShipmentId(shipment_id) ==
    {i \in Ids(shipments) : shipments[i].shipment_id = shipment_id}
\* find({"order_id": order["_id"]}): the shipments of an order, by _id
ShipmentsOfOrder(oid) == {i \in Ids(shipments) : shipments[i].order_id = oid}
\* find({"shipment_id": shipment["_id"], "event_code": "NDR"})
NdrEventsOfShipment(sid) ==
    {i \in Ids(courier_events) :
        /\ courier_events[i].shipment_id = sid
        /\ courier_events[i].event_code = "NDR"}
\* find_one / find in natural (insertion) order returns the first match
First(S) == CHOOSE i \in S : \A j \in S : i <= j

Init ==
    /\ now = 0
    /\ brands = {}
    /\ addresses = <<>>
    /\ orders = <<>>
    /\ items = <<>>
    /\ shipments = <<>>
    /\ courier_events = <<>>
    /\ ndr_challenges = <<>>
    /\ response = [op |-> "none", req |-> <<>>, status |-> 0, body |-> <<>>]
    /\ collection_bool_raises \in BOOLEAN
    /\ inflight = <<>>
    /\ pending_responses = [phone \in Phones |-> None]

(***************************************************************************)
(* The clock advances between requests.                                    *)
(***************************************************************************)
get_current_time ==
    /\ \E t \in Instants : t > now /\ now' = t
    /\ UNCHANGED <<pending_responses, inflight, collection_bool_raises,
                   brands, addresses, orders, items,
                   shipments, courier_events, ndr_challenges, response>>

(***************************************************************************)
(* POST /api/webhooks/order                                                *)
(***************************************************************************)
address_doc(address_data) ==
    [line1 |-> address_data.line1, city |-> address_data.city,
     pincode |-> address_data.pincode,
     latitude |-> address_data.latitude,
     longitude |-> address_data.longitude]

OrderDateInputs ==
    { [iso |-> TRUE, wall |-> 0, offset |-> None],
      [iso |-> FALSE, wall |-> 0, offset |-> None] }

\* Requests of the ingestion specification: every delivery address
TelemetryOrderRequests ==
    [order_id : OrderIds, brand_id : BrandIds,
     delivery_address : AddressInputs,
     order_date : OrderDateInputs, payment_mode : {"COD"}]

\* Requests of the workflow specification: the geocoded delivery address
OrderRequests ==
    { r \in TelemetryOrderRequests :
        r.delivery_address.latitude = Some(1000) }

webhook_order(request) ==
    LET address_id == Len(addresses) + 1
        order_doc ==
            [order_id |-> request.order_id,
             brand_id |-> request.brand_id,
             delivery_address_id |-> address_id,
             payment_mode |-> request.payment_mode,
             promised_delivery_date |-> None,
             status |-> "PLACED",
             order_metadata |-> None]
        \* datetime.fromisoformat raises on a malformed order_date, and the
        \* unique index on orders.order_id (server.py:194) rejects a second
        \* order with the same order_id; both come after the brand and the
        \* address were inserted.
        fails == \/ fromisoformat_raises(request.order_date)
                 \/ OrdersByOrderId(request.order_id) # {}
    IN
    /\ Len(addresses) < MaxAddresses
    /\ brands' = brands \cup {request.brand_id}
    /\ addresses' = Append(addresses, address_doc(request.delivery_address))
    /\ IF fails
       THEN /\ UNCHANGED <<orders, items>>
            /\ response' = [op |-> "webhook_order", req |-> request,
                            status |-> 500, body |-> <<>>]
       ELSE /\ orders' = Append(orders, order_doc)
            /\ items' = Append(items, [order_id |-> Len(orders) + 1])
            /\ response' = [op |-> "webhook_order", req |-> request,
                            status |-> 200,
                            body |-> [order_id |-> request.order_id]]
    /\ UNCHANGED <<pending_responses, inflight, collection_bool_raises,
                   now, shipments, courier_events,
                   ndr_challenges>>

(***************************************************************************)
(* A shipment booked with a carrier for an order.  No handler under src/   *)
(* creates a shipment for a real order: the ingest handler only creates    *)
(* placeholders.  Shipments of orders come from outside these handlers.    *)
(***************************************************************************)
ProvisionShipment(shipment_id, oid, carrier) ==
    /\ oid \in Ids(orders)
    /\ ShipmentsByShipmentId(shipment_id) = {}
    /\ shipments' = Append(shipments,
            [shipment_id |-> shipment_id, order_id |-> oid,
             carrier |-> carrier, current_status |-> "IN_TRANSIT",
             rto_initiated |-> FALSE])
    /\ UNCHANGED <<pending_responses, inflight, collection_bool_raises,
                   now, brands, addresses, orders,
                   items, courier_events,
                   ndr_challenges, response>>

(***************************************************************************)
(* POST /api/webhooks/courier_event                                        *)
(***************************************************************************)
\* The telemetry a courier event carries: <<gps, call_duration_sec>>
CourierEventRequest(s, c, t, g, d) ==
    [shipment_id |-> s, event_code |-> c[1], ndr_code |-> c[2],
     timestamp |-> t, gps_latitude |-> g[1], gps_longitude |-> g[2],
     call_duration_sec |-> d]

\* Requests of the workflow specification: a proven and an unproven
\* CUSTOMER_UNAVAILABLE NDR, a delivery, and each timestamp form.
CourierEventRequests ==
    { CourierEventRequest(s, <<"NDR", Some("CUSTOMER_UNAVAILABLE")>>, t,
                          <<Some(1000), Some(1000)>>, Some(10)) :
         s \in ShipmentIds, t \in TimestampInputs }
    \cup
    { CourierEventRequest(s, <<"NDR", Some("CUSTOMER_UNAVAILABLE")>>,
                          [iso |-> TRUE, wall |-> 0, offset |-> Some(0)],
                          <<Some(1201), Some(1000)>>, Some(10)) :
         s \in ShipmentIds }
    \cup
    { CourierEventRequest(s, <<"DELIVERED", None>>,
                          [iso |-> TRUE, wall |-> 0, offset |-> Some(0)],
                          <<None, None>>, None) :
         s \in ShipmentIds }

\* Requests of the ingestion specification: every GPS fix and call duration
\* of a CUSTOMER_UNAVAILABLE NDR and every other code, at one timestamp.
TelemetryRequests ==
    { CourierEventRequest(s, <<"NDR", Some("CUSTOMER_UNAVAILABLE")>>,
                          [iso |-> TRUE, wall |-> 0, offset |-> Some(0)],
                          g, d) :
         s \in ShipmentIds, g \in GpsInputs, d \in CallInputs }
    \cup
    { CourierEventRequest(s, c,
                          [iso |-> TRUE, wall |-> 0, offset |-> Some(0)],
                          g, Some(10)) :
         s \in ShipmentIds,
         c \in CodeInputs \ {<<"NDR", Some("CUSTOMER_UNAVAILABLE")>>},
         g \in {<<None, None>>, <<Some(1000), Some(1000)>>} }

\* server.py:466
ProofRequired_WrongCode(request) ==
    request.event_code = "NDR"
        /\ request.ndr_code = Some("CUSTOMER_NOT_AVAILABLE")

ProofRequired(request) ==
    request.event_code = "NDR"
        /\ request.ndr_code = Some("CUSTOMER_UNAVAILABLE")

\* server.py:420-434: the default shipment created for an unknown shipment_id
default_shipment_doc(request) ==
    [shipment_id |-> request.shipment_id, order_id |-> TestOrderId,
     carrier |-> "Unknown", current_status |-> "IN_TRANSIT",
     rto_initiated |-> FALSE]

\* server.py:469-482: the verdict stored in proof_validated.  `found` is the
\* set of shipments find_one matched before any placeholder was created.
ProofValidated_ValidWhenUnchecked(request, found) ==
    IF ~ProofRequired(request) THEN FALSE
    ELSE IF found = {} THEN TRUE
    ELSE LET shipment == shipments[First(found)]
             order_hit == {o \in Ids(orders) : o = shipment.order_id}
         IN IF order_hit = {} THEN TRUE
            ELSE validate_proof_of_attempt(request,
                    addresses[orders[First(order_hit)].delivery_address_id]
                 ).is_valid

ProofValidated(request, found) ==
    IF ~ProofRequired(request) \/ found = {} THEN FALSE
    ELSE LET shipment == shipments[First(found)]
             order_hit == {o \in Ids(orders) : o = shipment.order_id}
         IN IF order_hit = {} THEN FALSE
            ELSE LET order == orders[First(order_hit)]
                     address_hit == {a \in Ids(addresses) :
                                        a = order.delivery_address_id}
                 IN IF address_hit = {} THEN FALSE
                    ELSE validate_proof_of_attempt(
                            request, addresses[First(address_hit)]).is_valid

webhook_courier_event(request) ==
    LET found == ShipmentsByShipmentId(request.shipment_id)
        shipment_id == IF found = {} THEN Len(shipments) + 1 ELSE First(found)
        courier_event_doc ==
            [shipment_id |-> shipment_id,
             event_code |-> request.event_code,
             timestamp |-> fromisoformat(request.timestamp),
             ndr_code |-> request.ndr_code,
             proof_required |-> ProofRequired(request),
             proof_validated |-> ProofValidated(request, found),
             gps_latitude |-> request.gps_latitude,
             gps_longitude |-> request.gps_longitude,
             call_duration_sec |-> request.call_duration_sec,
             overturned_flag |-> FALSE,
             overturned_within_2h |-> FALSE,
             challenged |-> FALSE,
             challenge_id |-> None]
    IN
    /\ Len(courier_events) < MaxEvents
    /\ shipments' = IF found = {}
                    THEN Append(shipments, default_shipment_doc(request))
                    ELSE shipments
    /\ IF fromisoformat_raises(request.timestamp)
       THEN /\ UNCHANGED courier_events
            /\ response' = [op |-> "webhook_courier_event", req |-> request,
                            status |-> 500, body |-> <<>>]
       ELSE /\ courier_events' = Append(courier_events, courier_event_doc)
            /\ response' =
                 [op |-> "webhook_courier_event", req |-> request,
                  status |-> 200,
                  body |-> [event_id |-> Len(courier_events) + 1,
                            proof_required |-> courier_event_doc.proof_required,
                            proof_validated |-> courier_event_doc.proof_validated]]
    /\ UNCHANGED <<pending_responses, inflight, collection_bool_raises,
                   now, brands, addresses, orders,
                   items, ndr_challenges>>

(***************************************************************************)
(* POST /api/ndr/resolution                                                *)
(***************************************************************************)
DateInputs ==
    { [iso |-> TRUE, wall |-> 0, offset |-> Some(0)],
      [iso |-> TRUE, wall |-> 4320, offset |-> Some(0)],
      [iso |-> FALSE, wall |-> 0, offset |-> None] }

\* new_address payloads: a complete address, and one that carries only
\* coordinates (no line1, city or pincode: the code stores "" for them)
NewAddressInputs ==
    { [line1 |-> "456 New Street", city |-> "Bengaluru",
       pincode |-> "560002", latitude |-> Some(1200),
       longitude |-> Some(1000)],
      [line1 |-> "", city |-> "", pincode |-> "",
       latitude |-> Some(1200), longitude |-> Some(1000)] }

ResolutionRequests ==
    { [order_id |-> o, action |-> "RESCHEDULE", new_address |-> None,
       reschedule_date |-> d] :
          o \in OrderIds, d \in {None} \cup {Some(x) : x \in DateInputs} }
    \cup
    { [order_id |-> o, action |-> "CHANGE_ADDRESS", new_address |-> a,
       reschedule_date |-> None] :
          o \in OrderIds, a \in {None} \cup {Some(x) : x \in NewAddressInputs} }
    \cup
    { [order_id |-> o, action |-> a, new_address |-> None,
       reschedule_date |-> None] :
          o \in OrderIds, a \in {"DISPUTE", "RTO", "SELF_PICKUP"} }

\* latest_ndr["timestamp"].replace(tzinfo=TIMEZONE): the stored UTC wall
\* clock relabelled with the zone's offset, as an instant
replace_tzinfo(timestamp) == timestamp - TimezoneReplaceOffsetMin

\* server.py:591-592
WithinDisputeWindow(timestamp) ==
    now - replace_tzinfo(timestamp) <= DisputeWindowMin

\* find_one({... "event_code": "NDR"}, sort=[("timestamp", -1)]): an NDR
\* event of the shipment with the greatest timestamp (any of them on a tie)
LatestNdrs(sid) ==
    {i \in NdrEventsOfShipment(sid) :
        \A j \in NdrEventsOfShipment(sid) :
            courier_events[j].timestamp <= courier_events[i].timestamp}

\* server.py:593-596: the update DISPUTE applies to the latest NDR event
dispute_update_ResetsVerdict(event) ==
    [event EXCEPT !.overturned_within_2h = TRUE, !.proof_validated = FALSE]

dispute_update_TogglesFlag(event) ==
    [event EXCEPT !.overturned_within_2h = ~@]

\* a dispute that also overturns the verdict
dispute_update_SetsOverturnedFlag(event) ==
    [event EXCEPT !.overturned_within_2h = TRUE, !.overturned_flag = TRUE]

dispute_update(event) == [event EXCEPT !.overturned_within_2h = TRUE]

\* server.py:534-539, 548, 573
resolution_data(request, new_delivery_date, new_address_id) ==
    [order_id |-> request.order_id, action |-> request.action,
     timestamp |-> now, status |-> "processed",
     new_delivery_date |-> new_delivery_date,
     new_address_id |-> new_address_id]

\* server.py:610-621: order_metadata["ndr_resolution"] = resolution_data and
\* the $set of update_data on the order
update_order(oid, promised, address_id, status, data) ==
    orders' = [orders EXCEPT ![oid] =
        [@ EXCEPT !.promised_delivery_date = promised,
                  !.delivery_address_id = address_id,
                  !.status = status,
                  !.order_metadata = Some(data)]]

ok_response(request) ==
    [op |-> "ndr_resolution", req |-> request, status |-> 200,
     body |-> [order_id |-> request.order_id, action |-> request.action]]

error_response(request) ==
    [op |-> "ndr_resolution", req |-> request, status |-> 500,
     body |-> <<>>]

ndr_resolution(request) ==
    LET hit == OrdersByOrderId(request.order_id) IN
    IF hit = {}
    THEN \* HTTPException(400) is raised inside the try block and caught by
         \* `except Exception`, which answers 500 (server.py:531, 639-641)
         /\ response' = error_response(request)
         /\ UNCHANGED <<pending_responses, inflight, collection_bool_raises,
                        now, brands, addresses,
                        orders, items, shipments,
                        courier_events, ndr_challenges>>
    ELSE
      LET oid == First(hit)
          order == orders[oid]
          of_order == ShipmentsOfOrder(oid)
      IN
      /\ UNCHANGED <<pending_responses, inflight, collection_bool_raises,
                     now, brands, items,
                     ndr_challenges>>
      /\ CASE request.action = "RESCHEDULE" ->
              IF IsNone(request.reschedule_date)
              THEN /\ update_order(oid, order.promised_delivery_date,
                        order.delivery_address_id, order.status,
                        resolution_data(request, None, None))
                   /\ response' = ok_response(request)
                   /\ UNCHANGED <<addresses, shipments, courier_events>>
              ELSE IF fromisoformat_raises(Val(request.reschedule_date))
              THEN /\ response' = error_response(request)
                   /\ UNCHANGED <<addresses, orders, shipments,
                                  courier_events>>
              ELSE LET new_date ==
                          fromisoformat(Val(request.reschedule_date))
                   IN /\ update_order(oid, Some(new_date),
                            order.delivery_address_id, order.status,
                            resolution_data(request, Some(new_date), None))
                      /\ response' = ok_response(request)
                      /\ UNCHANGED <<addresses, shipments, courier_events>>
           [] request.action = "CHANGE_ADDRESS" ->
              IF IsNone(request.new_address)
              THEN /\ update_order(oid, order.promised_delivery_date,
                        order.delivery_address_id, order.status,
                        resolution_data(request, None, None))
                   /\ response' = ok_response(request)
                   /\ UNCHANGED <<addresses, shipments, courier_events>>
              ELSE LET new_address_id == Len(addresses) + 1 IN
                   /\ Len(addresses) < MaxAddresses
                   /\ addresses' = Append(addresses,
                            address_doc(Val(request.new_address)))
                   /\ update_order(oid, order.promised_delivery_date,
                        new_address_id, order.status,
                        resolution_data(request, None, Some(new_address_id)))
                   /\ response' = ok_response(request)
                   /\ UNCHANGED <<shipments, courier_events>>
           [] request.action = "DISPUTE" ->
              /\ IF of_order # {} /\ LatestNdrs(First(of_order)) # {}
                 THEN \E latest_ndr \in LatestNdrs(First(of_order)) :
                        courier_events' =
                          IF WithinDisputeWindow(
                                courier_events[latest_ndr].timestamp)
                          THEN [courier_events EXCEPT ![latest_ndr] =
                                    dispute_update(@)]
                          ELSE courier_events
                 ELSE UNCHANGED courier_events
              /\ update_order(oid, order.promised_delivery_date,
                    order.delivery_address_id, order.status,
                    resolution_data(request, None, None))
              /\ response' = ok_response(request)
              /\ UNCHANGED <<addresses, shipments>>
           [] request.action = "RTO" ->
              /\ IF of_order # {}
                 THEN /\ shipments' = [shipments EXCEPT
                            ![First(of_order)].rto_initiated = TRUE]
                      /\ update_order(oid, order.promised_delivery_date,
                            order.delivery_address_id, "RTO_INITIATED",
                            resolution_data(request, None, None))
                 ELSE /\ UNCHANGED shipments
                      /\ update_order(oid, order.promised_delivery_date,
                            order.delivery_address_id, order.status,
                            resolution_data(request, None, None))
              /\ response' = ok_response(request)
              /\ UNCHANGED <<addresses, courier_events>>
           [] OTHER ->
              /\ update_order(oid, order.promised_delivery_date,
                    order.delivery_address_id, order.status,
                    resolution_data(request, None, None))
              /\ response' = ok_response(request)
              /\ UNCHANGED <<addresses, shipments, courier_events>>

(***************************************************************************)
(* POST /api/seller/challenge-ndr                                          *)
(***************************************************************************)
ChallengeRequests ==
    [order_id : OrderIds, challenge_reason : {"Customer was at home"}]

\* seller_routes.py:445-454: the first shipment of the order, in find()
\* order, that has an NDR event
ShipmentsWithNdr(oid) ==
    {sid \in ShipmentsOfOrder(oid) : NdrEventsOfShipment(sid) # {}}

\* seller_routes.py:475-479
challenge_update(event, challenge_id) ==
    [event EXCEPT !.challenged = TRUE, !.challenge_id = Some(challenge_id)]

\* seller_routes.py:498-506: any exception other than HTTPException is
\* answered with a success that carries a challenge id of no Challenge
fallback_response(challenge) ==
    [op |-> "challenge_ndr", req |-> challenge, status |-> 200,
     body |-> [challenge_id |-> FallbackChallengeId]]

challenge_ndr(challenge) ==
    LET hit == OrdersByOrderId(challenge.order_id) IN
    IF collection_bool_raises
    THEN \* `not collections.get("orders")` (seller_routes.py:428) raises
         \* inside the try block
         /\ response' = fallback_response(challenge)
         /\ UNCHANGED <<pending_responses, inflight, collection_bool_raises,
                        now, brands, addresses,
                        orders, items, shipments, courier_events,
                        ndr_challenges>>
    ELSE IF hit = {} \/ ShipmentsWithNdr(First(hit)) = {}
    THEN /\ response' = [op |-> "challenge_ndr", req |-> challenge,
                         status |-> 404, body |-> <<>>]
         /\ UNCHANGED <<pending_responses, inflight, collection_bool_raises,
                        now, brands, addresses,
                        orders, items, shipments,
                        courier_events, ndr_challenges>>
    ELSE
      LET oid == First(hit)
          challenge_id == Len(ndr_challenges) + 1
      IN
      /\ Len(ndr_challenges) < MaxChallenges
      /\ \E ndr_event \in LatestNdrs(First(ShipmentsWithNdr(oid))) :
           /\ ndr_challenges' = Append(ndr_challenges,
                 [order_id |-> challenge.order_id,
                  ndr_event_id |-> ndr_event,
                  challenge_reason |-> challenge.challenge_reason,
                  status |-> "UNDER_REVIEW",
                  resolution |-> None])
           /\ courier_events' = [courier_events EXCEPT ![ndr_event] =
                 challenge_update(@, challenge_id)]
      /\ orders' = [orders EXCEPT ![oid].status = "NDR_CHALLENGED"]
      /\ response' = [op |-> "challenge_ndr", req |-> challenge,
                      status |-> 200,
                      body |-> [challenge_id |-> challenge_id]]
      /\ UNCHANGED <<pending_responses, inflight, collection_bool_raises,
                     now, brands, addresses, items,
                     shipments>>

(***************************************************************************)
(* GET /api/seller/orders/{brand_id}/{order_id}                            *)
(***************************************************************************)
TransparencyRequests == [brand_id : BrandIds, order_id : OrderIds]

\* find({"shipment_id": ...}) restricted to the events the view reports
\* proof for: NDR events with proof_required
ProofEventsOfShipment(sid) ==
    {i \in NdrEventsOfShipment(sid) : courier_events[i].proof_required}

\* The loops of seller_routes.py:285-342 overwrite ndr_details and
\* proof_validation at every event: what is returned belongs to the last
\* event visited, i.e. to the last shipment in find() order that has such an
\* event and, within it, to an event with the greatest timestamp.
LastVisited(oid, proof_only) ==
    LET EventsOf(sid) == IF proof_only THEN ProofEventsOfShipment(sid)
                         ELSE NdrEventsOfShipment(sid)
        with == {sid \in ShipmentsOfOrder(oid) : EventsOf(sid) # {}}
        last == CHOOSE sid \in with : \A t \in with : t <= sid
    IN IF with = {} THEN {}
       ELSE {i \in EventsOf(last) :
               \A j \in EventsOf(last) :
                  courier_events[j].timestamp <= courier_events[i].timestamp}

\* seller_routes.py:325-326
view_has_coordinates(event, address_hit) ==
    /\ Truthy(event.gps_latitude) /\ Truthy(event.gps_longitude)
    /\ address_hit # {}
    /\ Truthy(addresses[First(address_hit)].latitude)
    /\ Truthy(addresses[First(address_hit)].longitude)

\* seller_routes.py:319, 328-331: `None >= 10` raises TypeError for an event
\* stored without call duration, and geodesic raises on a latitude out of
\* range; both end in the fallback of seller_routes.py:389-421
view_raises(oid, address_hit) ==
    \E sid \in ShipmentsOfOrder(oid) : \E i \in ProofEventsOfShipment(sid) :
        \/ IsNone(courier_events[i].call_duration_sec)
        \/ /\ view_has_coordinates(courier_events[i], address_hit)
           /\ geodesic_raises(Val(courier_events[i].gps_latitude),
                  Val(courier_events[i].gps_longitude),
                  Val(addresses[First(address_hit)].latitude),
                  Val(addresses[First(address_hit)].longitude))

\* seller_routes.py:302-307
ndr_details(event) ==
    [ndr_code |-> event.ndr_code, proof_required |-> event.proof_required,
     proof_validated |-> event.proof_validated]

\* seller_routes.py:311-340: the proof context of an event, computed
\* against the address the order references when the view is read
proof_validation(event, address_hit) ==
    [provided |-> <<event.gps_latitude, event.gps_longitude>>,
     required |-> IF address_hit = {} THEN None
                  ELSE Some(<<addresses[First(address_hit)].latitude,
                              addresses[First(address_hit)].longitude>>),
     call_valid |-> Val(event.call_duration_sec) >= MinCallDurationSec,
     gps_valid |->
        IF view_has_coordinates(event, address_hit)
        THEN Some(geodesic_m2(Val(event.gps_latitude),
                      Val(event.gps_longitude),
                      Val(addresses[First(address_hit)].latitude),
                      Val(addresses[First(address_hit)].longitude))
                  <= max_distance_meters * max_distance_meters)
        ELSE None]

\* seller_routes.py:214-260 and 389-421: demo data in place of the view
transparency_fallback(request) ==
    [op |-> "get_order_transparency", req |-> request, status |-> 200,
     body |-> [fallback |-> TRUE, delivery_address |-> None,
               ndr_details |-> None, proof_validation |-> None]]

get_order_transparency(request) ==
    LET hit == {o \in OrdersByOrderId(request.order_id) :
                   orders[o].brand_id = request.brand_id}
    IN
    /\ UNCHANGED <<pending_responses, inflight, collection_bool_raises,
                   now, brands, addresses, orders,
                   items, shipments, courier_events, ndr_challenges>>
    /\ IF collection_bool_raises
       THEN response' = transparency_fallback(request)
       ELSE IF hit = {}
       THEN response' = [op |-> "get_order_transparency", req |-> request,
                         status |-> 404, body |-> <<>>]
       ELSE
         LET oid == First(hit)
             address_hit == {a \in Ids(addresses) :
                                a = orders[oid].delivery_address_id}
             last_ndr == LastVisited(oid, FALSE)
             last_proof == LastVisited(oid, TRUE)
         IN
         IF view_raises(oid, address_hit)
         THEN response' = transparency_fallback(request)
         ELSE \E n \in IF last_ndr = {} THEN {None}
                        ELSE {Some(i) : i \in last_ndr} :
              \E v \in IF last_proof = {} THEN {None}
                        ELSE {Some(i) : i \in last_proof} :
                response' =
                  [op |-> "get_order_transparency", req |-> request,
                   status |-> 200,
                   body |->
                     [fallback |-> FALSE,
                      delivery_address |->
                         IF address_hit = {} THEN None
                         ELSE Some(addresses[First(address_hit)]),
                      ndr_details |->
                         IF IsNone(n) THEN None
                         ELSE Some(ndr_details(courier_events[Val(n)])),
                      proof_validation |->
                         IF IsNone(v) THEN None
                         ELSE Some(proof_validation(
                                 courier_events[Val(v)], address_hit))]]

(***************************************************************************)
(* A carrier reporting a shipment delivered.  As with the booking of a     *)
(* shipment, no handler under src/ writes current_status; the dashboard    *)
(* only reads it.                                                          *)
(***************************************************************************)
DeliverShipment(sid) ==
    /\ sid \in Ids(shipments)
    /\ shipments[sid].current_status # "DELIVERED"
    /\ shipments' = [shipments EXCEPT ![sid].current_status = "DELIVERED"]
    /\ UNCHANGED <<pending_responses, inflight, collection_bool_raises,
                   now, brands, addresses, orders,
                   items, courier_events, ndr_challenges, response>>

(***************************************************************************)
(* GET /api/seller/dashboard/{brand_id}                                    *)
(***************************************************************************)
\* Every instant of the model lies within a day of the first, so every
\* stored order satisfies created_at >= start_date for each period.
DashboardRequests == [brand_id : BrandIds, period : {"day", "week", "month"}]

\* round(n / d * 100, 2), in hundredths of a percent
success_rate(n, d) ==
    IF d > 0 THEN (2 * n * 10000 + d) \div (2 * d) ELSE 0

\* seller_routes.py:93-96
OrdersOfBrand(brand_id) ==
    {o \in Ids(orders) : orders[o].brand_id = brand_id}
\* seller_routes.py:108-111, for all orders of the brand
ShipmentsOfBrand(brand_id) ==
    {sid \in Ids(shipments) : shipments[sid].order_id \in OrdersOfBrand(brand_id)}
\* seller_routes.py:131-134
NdrEventsOf(sids) ==
    {i \in Ids(courier_events) :
        /\ courier_events[i].shipment_id \in sids
        /\ courier_events[i].event_code = "NDR"}

\* seller_routes.py:113-148: the counters accumulated over a set of shipments
shipment_stats(sids) ==
    [total |-> Cardinality(sids),
     delivered |-> Cardinality({sid \in sids :
                      shipments[sid].current_status = "DELIVERED"}),
     verified_ndrs |-> Cardinality({i \in NdrEventsOf(sids) :
                          courier_events[i].proof_validated}),
     suspicious_ndrs |-> Cardinality({i \in NdrEventsOf(sids) :
                            /\ ~courier_events[i].proof_validated
                            /\ courier_events[i].proof_required}),
     rto_prevented |-> Cardinality({i \in NdrEventsOf(sids) :
                          courier_events[i].overturned_flag})]

\* seller_routes.py:153-165
carrier_breakdown(brand_id) ==
    { LET stats == shipment_stats({sid \in ShipmentsOfBrand(brand_id) :
                                      shipments[sid].carrier = carrier})
      IN [carrier |-> carrier,
          total_orders |-> stats.total,
          success_rate |-> success_rate(stats.delivered, stats.total),
          verified_ndrs |-> stats.verified_ndrs,
          suspicious_ndrs |-> stats.suspicious_ndrs,
          rto_prevented |-> stats.rto_prevented] :
      carrier \in {shipments[sid].carrier :
                      sid \in ShipmentsOfBrand(brand_id)} }

\* seller_routes.py:98-179
seller_dashboard(brand_id) ==
    LET stats == shipment_stats(ShipmentsOfBrand(brand_id))
        total_orders == Cardinality(OrdersOfBrand(brand_id))
    IN [fallback |-> FALSE,
        total_orders |-> total_orders,
        successful_deliveries |-> stats.delivered,
        success_rate |-> success_rate(stats.delivered, total_orders),
        verified_ndrs |-> stats.verified_ndrs,
        suspicious_ndrs |-> stats.suspicious_ndrs,
        rto_prevented |-> stats.rto_prevented,
        carrier_breakdown |-> carrier_breakdown(brand_id)]

\* seller_routes.py:181-204: demo metrics in place of the dashboard
dashboard_fallback ==
    [fallback |-> TRUE,
     total_orders |-> 25,
     successful_deliveries |-> 20,
     success_rate |-> 8000,
     verified_ndrs |-> 2,
     suspicious_ndrs |-> 1,
     rto_prevented |-> 3,
     carrier_breakdown |->
        {[carrier |-> "Demo Carrier", total_orders |-> 25,
          success_rate |-> 8000, verified_ndrs |-> 2,
          suspicious_ndrs |-> 1, rto_prevented |-> 3]}]

\* store_fails: a query of the handler raises (the store is unreachable)
get_seller_dashboard(request, store_fails) ==
    /\ response' =
          [op |-> "get_seller_dashboard",
           req |-> [brand_id |-> request.brand_id, period |-> request.period,
                    store_fails |-> store_fails],
           status |-> 200,
           body |-> IF collection_bool_raises \/ store_fails
                    THEN dashboard_fallback
                    ELSE seller_dashboard(request.brand_id)]
    /\ UNCHANGED <<pending_responses, inflight, collection_bool_raises,
                   now, brands, addresses, orders,
                   items, shipments, courier_events, ndr_challenges>>

(***************************************************************************)
(* GET /api/analytics/scorecard                                            *)
(***************************************************************************)
\* server.py:684-718: the scorecard is a literal
scorecard ==
    {[carrier |-> "Delhivery", dest_pin |-> "560001", week |-> "2024-W01",
      total_shipments |-> 1250],
     [carrier |-> "Shiprocket", dest_pin |-> "560002", week |-> "2024-W01",
      total_shipments |-> 890],
     [carrier |-> "Delhivery", dest_pin |-> "560003", week |-> "2024-W01",
      total_shipments |-> 675]}

get_weekly_scorecard ==
    /\ response' = [op |-> "get_weekly_scorecard", req |-> <<>>,
                    status |-> 200, body |-> scorecard]
    /\ UNCHANGED <<pending_responses, inflight, collection_bool_raises,
                   now, brands, addresses, orders,
                   items, shipments, courier_events, ndr_challenges>>

(***************************************************************************)
(* Store failures.  Every await on a collection can raise (the store is    *)
(* unreachable, a write times out); the statements before it have run and  *)
(* nothing undoes them.                                                    *)
(***************************************************************************)
\* the writes of challenge_ndr (seller_routes.py:473, 476, 482), in order
ChallengeSteps == <<"insert_challenge", "update_event", "update_order">>

\* challenge_ndr when the write ChallengeSteps[failed_step] raises: the
\* writes before it stay and `except Exception` answers the fallback
challenge_ndr_failing(challenge, failed_step) ==
    LET hit == OrdersByOrderId(challenge.order_id) IN
    /\ ~collection_bool_raises
    /\ hit # {}
    /\ ShipmentsWithNdr(First(hit)) # {}
    /\ Len(ndr_challenges) < MaxChallenges
    /\ \E ndr_event \in LatestNdrs(First(ShipmentsWithNdr(First(hit)))) :
         /\ ndr_challenges' =
              IF failed_step > 1
              THEN Append(ndr_challenges,
                     [order_id |-> challenge.order_id,
                      ndr_event_id |-> ndr_event,
                      challenge_reason |-> challenge.challenge_reason,
                      status |-> "UNDER_REVIEW",
                      resolution |-> None])
              ELSE ndr_challenges
         /\ courier_events' =
              IF failed_step > 2
              THEN [courier_events EXCEPT ![ndr_event] =
                      challenge_update(@, Len(ndr_challenges) + 1)]
              ELSE courier_events
    /\ response' = fallback_response(challenge)
    /\ UNCHANGED <<pending_responses, inflight, collection_bool_raises,
                   now, brands, addresses, orders,
                   items, shipments>>

\* ndr_resolution when the final update of the order (server.py:618)
\* raises: the address insert (568), the event update (593-596) and the
\* shipment update (604-607) before it stay and the answer is 500
ndr_resolution_failing(request) ==
    LET hit == OrdersByOrderId(request.order_id)
        of_order == ShipmentsOfOrder(First(hit))
    IN
    /\ hit # {}
    /\ ~(/\ request.action = "RESCHEDULE"
         /\ ~IsNone(request.reschedule_date)
         /\ fromisoformat_raises(Val(request.reschedule_date)))
    /\ IF request.action = "CHANGE_ADDRESS" /\ ~IsNone(request.new_address)
       THEN /\ Len(addresses) < MaxAddresses
            /\ addresses' = Append(addresses,
                     address_doc(Val(request.new_address)))
       ELSE UNCHANGED addresses
    /\ IF /\ request.action = "DISPUTE"
          /\ of_order # {}
          /\ LatestNdrs(First(of_order)) # {}
       THEN \E latest_ndr \in LatestNdrs(First(of_order)) :
              courier_events' =
                IF WithinDisputeWindow(courier_events[latest_ndr].timestamp)
                THEN [courier_events EXCEPT ![latest_ndr] = dispute_update(@)]
                ELSE courier_events
       ELSE UNCHANGED courier_events
    /\ IF request.action = "RTO" /\ of_order # {}
       THEN shipments' = [shipments EXCEPT
                             ![First(of_order)].rto_initiated = TRUE]
       ELSE UNCHANGED shipments
    /\ response' = error_response(request)
    /\ UNCHANGED <<pending_responses, inflight, collection_bool_raises,
                   now, brands, orders, items,
                   ndr_challenges>>

(***************************************************************************)
(* Two requests served concurrently.  A handler runs until its next await  *)
(* on the store; between two awaits of one request the other request can   *)
(* run.  Nothing in either handler locks the order.                        *)
(***************************************************************************)
\* openChallenge and the resolve action that writes two documents, RTO
ConcurrentRequests ==
    {[op |-> "challenge_ndr", req |-> challenge] :
        challenge \in ChallengeRequests}
    \cup
    {[op |-> "ndr_resolution", req |-> request] :
        request \in {r \in ResolutionRequests : r.action = "RTO"}}

\* what the requests read and write
Store ==
    [orders |-> orders, shipments |-> shipments,
     courier_events |-> courier_events, ndr_challenges |-> ndr_challenges]

\* a request before its first await, with the locals the handler keeps
\* across awaits (0: not assigned yet)
started(request) ==
    [op |-> request.op, req |-> request.req, pc |-> "find",
     order |-> 0, shipment |-> 0, ndr_event |-> 0, challenge_id |-> 0,
     shipment_id |-> 0, event_id |-> 0]

At(i, op, pc) ==
    /\ inflight # <<>>
    /\ inflight.requests[i].op = op
    /\ inflight.requests[i].pc = pc

accept_concurrent(first, second) ==
    /\ inflight = <<>>
    /\ inflight' = [base |-> Store,
                    requests |-> <<started(first), started(second)>>]
    /\ UNCHANGED <<pending_responses, collection_bool_raises,
                   now, brands, addresses, orders,
                   items, shipments, courier_events, ndr_challenges,
                   response>>

\* seller_routes.py:428-456: the reads of challenge_ndr
challenge_find(i) ==
    LET challenge == inflight.requests[i].req
        hit == OrdersByOrderId(challenge.order_id)
    IN
    /\ At(i, "challenge_ndr", "find")
    /\ IF collection_bool_raises
       THEN /\ response' = fallback_response(challenge)
            /\ inflight' = [inflight EXCEPT !.requests[i].pc = "done"]
       ELSE IF hit = {} \/ ShipmentsWithNdr(First(hit)) = {}
       THEN /\ response' = [op |-> "challenge_ndr", req |-> challenge,
                            status |-> 404, body |-> <<>>]
            /\ inflight' = [inflight EXCEPT !.requests[i].pc = "done"]
       ELSE /\ UNCHANGED response
            /\ \E ndr_event \in
                    LatestNdrs(First(ShipmentsWithNdr(First(hit)))) :
                 inflight' = [inflight EXCEPT
                    !.requests[i].pc = "insert_challenge",
                    !.requests[i].order = First(hit),
                    !.requests[i].ndr_event = ndr_event]
    /\ UNCHANGED <<pending_responses, collection_bool_raises,
                   now, brands, addresses, orders,
                   items, shipments, courier_events, ndr_challenges>>

\* seller_routes.py:459-473
challenge_insert(i) ==
    LET request == inflight.requests[i] IN
    /\ At(i, "challenge_ndr", "insert_challenge")
    /\ ndr_challenges' = Append(ndr_challenges,
          [order_id |-> request.req.order_id,
           ndr_event_id |-> request.ndr_event,
           challenge_reason |-> request.req.challenge_reason,
           status |-> "UNDER_REVIEW",
           resolution |-> None])
    /\ inflight' = [inflight EXCEPT
          !.requests[i].pc = "update_event",
          !.requests[i].challenge_id = Len(ndr_challenges) + 1]
    /\ UNCHANGED <<pending_responses, collection_bool_raises,
                   now, brands, addresses, orders,
                   items, shipments, courier_events, response>>

\* seller_routes.py:476-479
challenge_update_event(i) ==
    LET request == inflight.requests[i] IN
    /\ At(i, "challenge_ndr", "update_event")
    /\ courier_events' = [courier_events EXCEPT ![request.ndr_event] =
          challenge_update(@, request.challenge_id)]
    /\ inflight' = [inflight EXCEPT !.requests[i].pc = "update_order"]
    /\ UNCHANGED <<pending_responses, collection_bool_raises,
                   now, brands, addresses, orders,
                   items, shipments, ndr_challenges, response>>

\* seller_routes.py:482-496
challenge_update_order(i) ==
    LET request == inflight.requests[i] IN
    /\ At(i, "challenge_ndr", "update_order")
    /\ orders' = [orders EXCEPT ![request.order].status = "NDR_CHALLENGED"]
    /\ response' = [op |-> "challenge_ndr", req |-> request.req,
                    status |-> 200,
                    body |-> [challenge_id |-> request.challenge_id]]
    /\ inflight' = [inflight EXCEPT !.requests[i].pc = "done"]
    /\ UNCHANGED <<pending_responses, collection_bool_raises,
                   now, brands, addresses, items,
                   shipments, courier_events, ndr_challenges>>

\* server.py:528-531, 600: the reads of ndr_resolution for action RTO
resolution_find(i) ==
    LET request == inflight.requests[i].req
        hit == OrdersByOrderId(request.order_id)
    IN
    /\ At(i, "ndr_resolution", "find")
    /\ IF hit = {}
       THEN /\ response' = error_response(request)
            /\ inflight' = [inflight EXCEPT !.requests[i].pc = "done"]
       ELSE /\ UNCHANGED response
            /\ inflight' =
                 IF ShipmentsOfOrder(First(hit)) = {}
                 THEN [inflight EXCEPT
                         !.requests[i].pc = "update_order",
                         !.requests[i].order = First(hit)]
                 ELSE [inflight EXCEPT
                         !.requests[i].pc = "update_shipment",
                         !.requests[i].order = First(hit),
                         !.requests[i].shipment =
                             First(ShipmentsOfOrder(First(hit)))]
    /\ UNCHANGED <<pending_responses, collection_bool_raises,
                   now, brands, addresses, orders,
                   items, shipments, courier_events, ndr_challenges>>

\* server.py:603-608
resolution_update_shipment(i) ==
    LET request == inflight.requests[i] IN
    /\ At(i, "ndr_resolution", "update_shipment")
    /\ shipments' = [shipments EXCEPT
                        ![request.shipment].rto_initiated = TRUE]
    /\ inflight' = [inflight EXCEPT !.requests[i].pc = "update_order"]
    /\ UNCHANGED <<pending_responses, collection_bool_raises,
                   now, brands, addresses, orders,
                   items, courier_events, ndr_challenges, response>>

\* server.py:610-634: the $set holds status only when a shipment was found
resolution_update_order(i) ==
    LET request == inflight.requests[i] IN
    /\ At(i, "ndr_resolution", "update_order")
    /\ orders' = [orders EXCEPT ![request.order] =
          [@ EXCEPT !.status = IF request.shipment # 0
                               THEN "RTO_INITIATED" ELSE @,
                    !.order_metadata =
                        Some(resolution_data(request.req, None, None))]]
    /\ response' = ok_response(request.req)
    /\ inflight' = [inflight EXCEPT !.requests[i].pc = "done"]
    /\ UNCHANGED <<pending_responses, collection_bool_raises,
                   now, brands, addresses, items,
                   shipments, courier_events, ndr_challenges>>

(***************************************************************************)
(* Two courier events ingested concurrently                                *)
(***************************************************************************)
\* well-formed events for one shipment_id
ConcurrentEventRequests ==
    {[op |-> "webhook_courier_event", req |-> request] :
        request \in {r \in CourierEventRequests :
                        ~fromisoformat_raises(r.timestamp)}}

\* server.py:416: find_one on shipments (0: None)
ingest_find(i) ==
    LET request == inflight.requests[i].req
        found == ShipmentsByShipmentId(request.shipment_id)
    IN
    /\ At(i, "webhook_courier_event", "find")
    /\ inflight' =
         IF found = {}
         THEN [inflight EXCEPT !.requests[i].pc = "insert_shipment"]
         ELSE [inflight EXCEPT !.requests[i].pc = "insert_event",
                               !.requests[i].shipment = First(found),
                               !.requests[i].shipment_id = First(found)]
    /\ UNCHANGED <<pending_responses, collection_bool_raises,
                   now, brands, addresses, orders,
                   items, shipments, courier_events, ndr_challenges,
                   response>>

\* server.py:420-437: insert_one of the default shipment.  The unique
\* index on shipment_id (server.py:199) rejects a second record for the
\* same shipment_id with DuplicateKeyError, which `except Exception`
\* answers with 500 (server.py:519-521)
ingest_insert_shipment(i) ==
    LET request == inflight.requests[i].req IN
    /\ At(i, "webhook_courier_event", "insert_shipment")
    /\ IF ShipmentsByShipmentId(request.shipment_id) # {}
       THEN /\ response' = [op |-> "webhook_courier_event", req |-> request,
                            status |-> 500, body |-> <<>>]
            /\ inflight' = [inflight EXCEPT !.requests[i].pc = "done"]
            /\ UNCHANGED shipments
       ELSE /\ shipments' = Append(shipments, default_shipment_doc(request))
            /\ inflight' = [inflight EXCEPT
                  !.requests[i].pc = "insert_event",
                  !.requests[i].shipment_id = Len(shipments) + 1]
            /\ UNCHANGED response
    /\ UNCHANGED <<pending_responses, collection_bool_raises,
                   now, brands, addresses, orders,
                   items, courier_events, ndr_challenges>>

\* server.py:442-516: the event is validated against the shipment that
\* find_one returned, if any, and stored against shipment_id
ingest_insert_event(i) ==
    LET slot == inflight.requests[i]
        request == slot.req
        found == IF slot.shipment = 0 THEN {} ELSE {slot.shipment}
        courier_event_doc ==
            [shipment_id |-> slot.shipment_id,
             event_code |-> request.event_code,
             timestamp |-> fromisoformat(request.timestamp),
             ndr_code |-> request.ndr_code,
             proof_required |-> ProofRequired(request),
             proof_validated |-> ProofValidated(request, found),
             gps_latitude |-> request.gps_latitude,
             gps_longitude |-> request.gps_longitude,
             call_duration_sec |-> request.call_duration_sec,
             overturned_flag |-> FALSE,
             overturned_within_2h |-> FALSE,
             challenged |-> FALSE,
             challenge_id |-> None]
    IN
    /\ At(i, "webhook_courier_event", "insert_event")
    /\ Len(courier_events) < MaxEvents
    /\ courier_events' = Append(courier_events, courier_event_doc)
    /\ response' =
         [op |-> "webhook_courier_event", req |-> request, status |-> 200,
          body |-> [event_id |-> Len(courier_events) + 1,
                    proof_required |-> courier_event_doc.proof_required,
                    proof_validated |-> courier_event_doc.proof_validated]]
    /\ inflight' = [inflight EXCEPT
          !.requests[i].pc = "done",
          !.requests[i].event_id = Len(courier_events) + 1]
    /\ UNCHANGED <<pending_responses, collection_bool_raises,
                   now, brands, addresses, orders,
                   items, shipments, ndr_challenges>>

(***************************************************************************)
(* WhatsAppNDRService (whatsapp_service.py).  Its methods are written as   *)
(* functions of the instance's pending_responses dict, because the routes  *)
(* build a new instance for every request.                                 *)
(***************************************************************************)
\* whatsapp_routes.py:168: timedelta(hours=2), in minutes
PendingExpiryMin == 120

\* WhatsAppNDRService.__init__: self.pending_responses = {}
NewServicePending == [phone \in Phones |-> None]

\* message.strip().lower() (whatsapp_service.py:114)
strip_lower(message) ==
    IF message = " Reschedule " THEN "reschedule" ELSE message

\* whatsapp_service.py:117-125 ("" for None)
response_type(message_lower) ==
    CASE message_lower \in {"1", "reschedule", "reschedule delivery"}
            -> "RESCHEDULE"
      [] message_lower \in {"2", "change address", "change location"}
            -> "CHANGE_ADDRESS"
      [] message_lower \in {"3", "self pickup", "pickup", "collect"}
            -> "SELF_PICKUP"
      [] message_lower \in {"4", "cancel", "cancel order", "return"}
            -> "RTO"
      [] message_lower \in {"help", "?"} -> "HELP"
      [] OTHER -> ""

\* whatsapp_service.py:32-102: the options are sent and the entry for the
\* phone is (over)written, unless the order does not exist
send_options(pending, order_id, customer_phone) ==
    IF OrdersByOrderId(order_id) = {}
    THEN [success |-> FALSE, pending |-> pending]
    ELSE [success |-> TRUE,
          pending |-> [pending EXCEPT ![customer_phone] =
                          Some([order_id |-> order_id, sent_at |-> now,
                                status |-> "PENDING"])]]

\* the status a handler writes on the order (whatsapp_service.py:189-195,
\* 223-229, 262-268); handle_rto_request writes none (276-312)
handler_status(action) ==
    CASE action = "RESCHEDULE" -> Some("RESCHEDULE_REQUESTED")
      [] action = "CHANGE_ADDRESS" -> Some("ADDRESS_CHANGE_REQUESTED")
      [] action = "SELF_PICKUP" -> Some("SELF_PICKUP_REQUESTED")
      [] OTHER -> None

handler_action(action) ==
    CASE action = "RESCHEDULE" -> "reschedule_options_sent"
      [] action = "CHANGE_ADDRESS" -> "address_change_requested"
      [] action = "SELF_PICKUP" -> "pickup_options_sent"
      [] OTHER -> "cancellation_confirmation_sent"

\* process_customer_response without line 137: the entry is never marked
\* COMPLETED
customer_response_StaysPending(pending, phone_number, message) ==
    LET entry == pending[phone_number]
        choice == response_type(strip_lower(message))
    IN
    IF IsNone(entry) \/ Val(entry).status # "PENDING"
    THEN [pending |-> pending, action |-> "general_response_sent",
          order_id |-> None, status |-> None]
    ELSE IF choice = "HELP"
    THEN [pending |-> pending, action |-> "help_sent",
          order_id |-> None, status |-> None]
    ELSE IF choice = ""
    THEN [pending |-> pending, action |-> "clarification_sent",
          order_id |-> None, status |-> None]
    ELSE [pending |-> pending,
          action |-> handler_action(choice),
          order_id |-> Some(Val(entry).order_id),
          status |-> handler_status(choice)]

\* whatsapp_service.py:106-145: what a message from the phone does, given
\* the instance's dict: the dict afterwards, the reply sent, and the order
\* and status written, if any
customer_response(pending, phone_number, message) ==
    LET entry == pending[phone_number]
        choice == response_type(strip_lower(message))
    IN
    IF IsNone(entry) \/ Val(entry).status # "PENDING"
    THEN [pending |-> pending, action |-> "general_response_sent",
          order_id |-> None, status |-> None]
    ELSE IF choice = "HELP"
    THEN [pending |-> pending, action |-> "help_sent",
          order_id |-> None, status |-> None]
    ELSE IF choice = ""
    THEN [pending |-> pending, action |-> "clarification_sent",
          order_id |-> None, status |-> None]
    ELSE [pending |-> [pending EXCEPT ![phone_number] =
                          Some([Val(entry) EXCEPT !.status = "COMPLETED"])],
          action |-> handler_action(choice),
          order_id |-> Some(Val(entry).order_id),
          status |-> handler_status(choice)]

\* update_one({"order_id": order_id}, {"$set": {"status": ...}})
orders_after(result) ==
    IF IsNone(result.status) THEN orders
    ELSE [o \in Ids(orders) |->
            IF orders[o].order_id = Val(result.order_id)
            THEN [orders[o] EXCEPT !.status = Val(result.status)]
            ELSE orders[o]]

\* the module-level instance whatsapp_service (whatsapp_service.py:374)
send_ndr_resolution_options(order_id, customer_phone) ==
    LET result == send_options(pending_responses, order_id, customer_phone)
    IN
    /\ pending_responses' = result.pending
    /\ response' = [op |-> "send_ndr_resolution_options",
                    req |-> [order_id |-> order_id,
                             customer_phone |-> customer_phone],
                    status |-> 200,
                    body |-> [success |-> result.success]]
    /\ UNCHANGED <<inflight, collection_bool_raises, now, brands, addresses,
                   orders, items, shipments, courier_events, ndr_challenges>>

process_customer_response(phone_number, message) ==
    LET result == customer_response(pending_responses, phone_number, message)
    IN
    /\ pending_responses' = result.pending
    /\ orders' = orders_after(result)
    /\ response' = [op |-> "process_customer_response",
                    req |-> [phone_number |-> phone_number,
                             message |-> message],
                    status |-> 200,
                    body |-> [action |-> result.action]]
    /\ UNCHANGED <<inflight, collection_bool_raises, now, brands, addresses,
                   items, shipments, courier_events, ndr_challenges>>

(***************************************************************************)
(* The WhatsApp endpoints (whatsapp_routes.py)                             *)
(***************************************************************************)
TriggerRequests ==
    [order_id : OrderIds, customer_phone : Phones, trigger_whatsapp : BOOLEAN]
WebhookMessages == [phone_number : Phones, message : Messages]

\* phone[:8] + "XXX"
masked(phone) == IF phone = "+919876543210" THEN "+9198765XXX" ELSE phone

\* POST /api/whatsapp/trigger-ndr: the options are sent through a service
\* built for this request (whatsapp_routes.py:87-88), whose dict is dropped
\* with it
trigger_ndr_resolution(request) ==
    LET result == send_options(NewServicePending, request.order_id,
                               request.customer_phone)
    IN
    /\ response' = [op |-> "trigger_ndr_resolution", req |-> request,
                    status |-> IF ~request.trigger_whatsapp \/ result.success
                               THEN 200 ELSE 500,
                    body |-> [sent |-> request.trigger_whatsapp
                                          /\ result.success]]
    /\ UNCHANGED <<pending_responses, inflight, collection_bool_raises, now,
                   brands, addresses, orders, items, shipments,
                   courier_events, ndr_challenges>>

\* POST /api/whatsapp/webhook with its background task
\* process_whatsapp_message, which also builds its own service
\* (whatsapp_routes.py:62-65)
whatsapp_webhook(webhook_data) ==
    LET result == customer_response(NewServicePending,
                        webhook_data.phone_number, webhook_data.message)
    IN
    /\ orders' = orders_after(result)
    /\ response' = [op |-> "whatsapp_webhook", req |-> webhook_data,
                    status |-> 200, body |-> [action |-> result.action]]
    /\ UNCHANGED <<pending_responses, inflight, collection_bool_raises, now,
                   brands, addresses, items, shipments, courier_events,
                   ndr_challenges>>

\* GET /api/whatsapp/pending-responses: the entries of the module-level
\* instance that are PENDING and were sent after now - 2 h
active_pending ==
    {[phone |-> masked(phone),
      order_id |-> Val(pending_responses[phone]).order_id,
      sent_at |-> Val(pending_responses[phone]).sent_at] :
        phone \in {p \in Phones :
            /\ ~IsNone(pending_responses[p])
            /\ Val(pending_responses[p]).sent_at > now - PendingExpiryMin
            /\ Val(pending_responses[p]).status = "PENDING"}}

get_pending_responses ==
    /\ response' = [op |-> "get_pending_responses", req |-> <<>>,
                    status |-> 200, body |-> active_pending]
    /\ UNCHANGED <<pending_responses, inflight, collection_bool_raises, now,
                   brands, addresses, orders, items, shipments,
                   courier_events, ndr_challenges>>

Next ==
    \/ get_current_time
    \/ \E request \in OrderRequests : webhook_order(request)
    \/ \E s \in ShipmentIds, o \in Ids(orders), c \in Carriers :
          ProvisionShipment(s, o, c)
    \/ \E request \in CourierEventRequests : webhook_courier_event(request)
    \/ \E request \in ResolutionRequests : ndr_resolution(request)
    \/ \E challenge \in ChallengeRequests : challenge_ndr(challenge)

Spec == Init /\ [][Next]_vars

\* The seller's endpoints over ingested orders and events, with the one
\* resolve action that changes what the order view reads: CHANGE_ADDRESS
SellerResolutionRequests ==
    {r \in ResolutionRequests : r.action = "CHANGE_ADDRESS"}

NextSeller ==
    \/ \E request \in OrderRequests : webhook_order(request)
    \/ \E s \in ShipmentIds, o \in Ids(orders), c \in Carriers :
          ProvisionShipment(s, o, c)
    \/ \E request \in CourierEventRequests : webhook_courier_event(request)
    \/ \E request \in SellerResolutionRequests : ndr_resolution(request)
    \/ \E challenge \in ChallengeRequests : challenge_ndr(challenge)
    \/ \E request \in TransparencyRequests : get_order_transparency(request)

SpecSeller == Init /\ [][NextSeller]_vars

\* The analytics endpoints over ingested orders, shipments and events
NextAnalytics ==
    \/ \E request \in OrderRequests : webhook_order(request)
    \/ \E s \in ShipmentIds, o \in Ids(orders), c \in Carriers :
          ProvisionShipment(s, o, c)
    \/ \E sid \in Ids(shipments) : DeliverShipment(sid)
    \/ \E request \in CourierEventRequests : webhook_courier_event(request)
    \/ \E request \in DashboardRequests, store_fails \in BOOLEAN :
          get_seller_dashboard(request, store_fails)
    \/ get_weekly_scorecard

SpecAnalytics == Init /\ [][NextAnalytics]_vars

\* Resolution, challenge and dashboard over a store whose operations can
\* raise
FaultResolutionRequests ==
    {r \in ResolutionRequests :
        \/ r.action = "RTO"
        \/ r.action = "CHANGE_ADDRESS" /\ ~IsNone(r.new_address)}

NextFaults ==
    \/ \E request \in OrderRequests : webhook_order(request)
    \/ \E s \in ShipmentIds, o \in Ids(orders), c \in Carriers :
          ProvisionShipment(s, o, c)
    \/ \E request \in CourierEventRequests : webhook_courier_event(request)
    \/ \E request \in FaultResolutionRequests : ndr_resolution(request)
    \/ \E request \in FaultResolutionRequests : ndr_resolution_failing(request)
    \/ \E challenge \in ChallengeRequests : challenge_ndr(challenge)
    \/ \E challenge \in ChallengeRequests,
          failed_step \in DOMAIN ChallengeSteps :
          challenge_ndr_failing(challenge, failed_step)
    \/ \E request \in DashboardRequests, store_fails \in BOOLEAN :
          get_seller_dashboard(request, store_fails)

SpecFaults == Init /\ [][NextFaults]_vars

\* Two requests on ingested orders and events, interleaved at their awaits
NextConcurrent ==
    \/ inflight = <<>> /\ \E request \in OrderRequests : webhook_order(request)
    \/ /\ inflight = <<>>
       /\ \E s \in ShipmentIds, o \in Ids(orders), c \in Carriers :
             ProvisionShipment(s, o, c)
    \/ /\ inflight = <<>>
       /\ \E request \in CourierEventRequests : webhook_courier_event(request)
    \/ \E first, second \in ConcurrentRequests :
          accept_concurrent(first, second)
    \/ \E i \in {1, 2} : challenge_find(i)
    \/ \E i \in {1, 2} : challenge_insert(i)
    \/ \E i \in {1, 2} : challenge_update_event(i)
    \/ \E i \in {1, 2} : challenge_update_order(i)
    \/ \E i \in {1, 2} : resolution_find(i)
    \/ \E i \in {1, 2} : resolution_update_shipment(i)
    \/ \E i \in {1, 2} : resolution_update_order(i)

SpecConcurrent == Init /\ [][NextConcurrent]_vars

\* Disputes and challenges on an order that has two shipments
LaneShipmentIds == {"s1", "s2"}

LaneEventRequests ==
    { CourierEventRequest(s, <<"NDR", Some("CUSTOMER_UNAVAILABLE")>>, t,
                          <<Some(1000), Some(1000)>>, Some(10)) :
         s \in LaneShipmentIds,
         t \in {[iso |-> TRUE, wall |-> 0, offset |-> Some(0)],
                [iso |-> TRUE, wall |-> 60, offset |-> Some(0)]} }

NextLanes ==
    \/ \E request \in OrderRequests : webhook_order(request)
    \/ \E s \in LaneShipmentIds, o \in Ids(orders), c \in Carriers :
          ProvisionShipment(s, o, c)
    \/ \E request \in LaneEventRequests : webhook_courier_event(request)
    \/ \E request \in {r \in ResolutionRequests : r.action = "DISPUTE"} :
          ndr_resolution(request)
    \/ \E challenge \in ChallengeRequests : challenge_ndr(challenge)

SpecLanes == Init /\ [][NextLanes]_vars

\* Two courier events on ingested orders, interleaved at their awaits
NextConcurrentIngest ==
    \/ inflight = <<>> /\ \E request \in OrderRequests : webhook_order(request)
    \/ /\ inflight = <<>>
       /\ \E s \in ShipmentIds, o \in Ids(orders), c \in Carriers :
             ProvisionShipment(s, o, c)
    \/ \E first, second \in ConcurrentEventRequests :
          accept_concurrent(first, second)
    \/ \E i \in {1, 2} : ingest_find(i)
    \/ \E i \in {1, 2} : ingest_insert_shipment(i)
    \/ \E i \in {1, 2} : ingest_insert_event(i)

SpecConcurrentIngest == Init /\ [][NextConcurrentIngest]_vars

\* The WhatsApp endpoints over ingested orders
NextWhatsApp ==
    \/ get_current_time
    \/ \E request \in OrderRequests : webhook_order(request)
    \/ \E request \in TriggerRequests : trigger_ndr_resolution(request)
    \/ \E webhook_data \in WebhookMessages : whatsapp_webhook(webhook_data)
    \/ get_pending_responses

SpecWhatsApp == Init /\ [][NextWhatsApp]_vars

\* One WhatsAppNDRService, the module-level instance, driven directly
NextWhatsAppService ==
    \/ get_current_time
    \/ \E request \in OrderRequests : webhook_order(request)
    \/ \E order_id \in OrderIds, customer_phone \in Phones :
          send_ndr_resolution_options(order_id, customer_phone)
    \/ \E phone_number \in Phones, message \in Messages :
          process_customer_response(phone_number, message)
    \/ get_pending_responses

SpecWhatsAppService == Init /\ [][NextWhatsAppService]_vars

\* The two resolution channels side by side: the resolve endpoint and
\* replies to one WhatsAppNDRService
ChannelRequests ==
    {request \in ResolutionRequests :
        request.action \in {"RESCHEDULE", "CHANGE_ADDRESS", "RTO"}}

NextChannels ==
    \/ \E request \in OrderRequests : webhook_order(request)
    \/ \E s \in ShipmentIds, o \in Ids(orders), c \in Carriers :
          ProvisionShipment(s, o, c)
    \/ \E request \in ChannelRequests : ndr_resolution(request)
    \/ \E order_id \in OrderIds, customer_phone \in Phones :
          send_ndr_resolution_options(order_id, customer_phone)
    \/ \E phone_number \in Phones, message \in Messages :
          process_customer_response(phone_number, message)

SpecChannels == Init /\ [][NextChannels]_vars

\* Order intake and resolution alone
NextResolve ==
    \/ \E request \in OrderRequests : webhook_order(request)
    \/ \E s \in ShipmentIds, o \in Ids(orders), c \in Carriers :
          ProvisionShipment(s, o, c)
    \/ \E request \in ResolutionRequests : ndr_resolution(request)

SpecResolve == Init /\ [][NextResolve]_vars

\* Ingestion alone, over the full telemetry domain
NextIngest ==
    \/ \E request \in TelemetryOrderRequests : webhook_order(request)
    \/ \E s \in ShipmentIds, o \in Ids(orders), c \in Carriers :
          ProvisionShipment(s, o, c)
    \/ \E request \in TelemetryRequests : webhook_courier_event(request)

SpecIngest == Init /\ [][NextIngest]_vars

(***************************************************************************)
(* The validator alone, as a function of (event, delivery address)         *)
(***************************************************************************)
ValidatorEvents ==
    { CourierEventRequest("s1", c,
                          [iso |-> TRUE, wall |-> 0, offset |-> Some(0)],
                          g, d) :
         c \in CodeInputs, g \in GpsInputs, d \in CallInputs }

InitValidator ==
    /\ now = 0
    /\ brands = {}
    /\ addresses = <<>>
    /\ orders = <<>>
    /\ items = <<>>
    /\ shipments = <<>>
    /\ courier_events = <<>>
    /\ ndr_challenges = <<>>
    /\ collection_bool_raises = FALSE
    /\ inflight = <<>>
    /\ pending_responses = [phone \in Phones |-> None]
    /\ \E event \in ValidatorEvents, delivery_address \in AddressInputs :
          response = [op |-> "validate_proof_of_attempt",
                      req |-> [event |-> event,
                               delivery_address |-> delivery_address],
                      status |-> 0, body |-> <<>>]

Validate ==
    /\ response.op = "validate_proof_of_attempt"
    /\ response.status = 0
    /\ response' = [response EXCEPT
          !.status = 200,
          !.body = validate_proof_of_attempt(response.req.event,
                        address_doc(response.req.delivery_address))]
    /\ UNCHANGED <<pending_responses, inflight, collection_bool_raises,
                   now, brands, addresses, orders,
                   items, shipments,
                   courier_events, ndr_challenges>>

SpecValidator == InitValidator /\ [][Validate]_vars

(***************************************************************************)
(* Properties                                                              *)
(***************************************************************************)
IsCustomerUnavailableNdr(e) ==
    e.event_code = "NDR" /\ e.ndr_code = Some("CUSTOMER_UNAVAILABLE")

\* The proof of attempt, stated from the rule and not from the validator:
\* all four coordinates given, a distance that exists and is at most 200 m,
\* and a call of at least 10 s.
GpsWithin200m(e, a) ==
    /\ e.gps_latitude # None /\ e.gps_longitude # None
    /\ a.latitude # None /\ a.longitude # None
    /\ ~geodesic_raises(e.gps_latitude[1], e.gps_longitude[1],
                        a.latitude[1], a.longitude[1])
    /\ (e.gps_latitude[1] - a.latitude[1]) * (e.gps_latitude[1] - a.latitude[1])
         + (e.gps_longitude[1] - a.longitude[1])
              * (e.gps_longitude[1] - a.longitude[1])
       <= 200 * 200
CallAtLeast10s(e) ==
    e.call_duration_sec # None /\ e.call_duration_sec[1] >= 10

\* the shipment document an event was stored against, its order, its address
HasOrder(e) ==
    /\ e.shipment_id \in Ids(shipments)
    /\ shipments[e.shipment_id].order_id \in Ids(orders)
OrderOfEvent(e) == orders[shipments[e.shipment_id].order_id]
HasAddress(e) ==
    HasOrder(e) /\ OrderOfEvent(e).delivery_address_id \in Ids(addresses)
AddressOfEvent(e) == addresses[OrderOfEvent(e).delivery_address_id]

\* a step that served an ingest request
IngestStep ==
    /\ response'.op = "webhook_courier_event"
    /\ response' # response \/ courier_events' # courier_events
\* a step that served a successful resolve request with action DISPUTE
DisputeStep ==
    /\ response'.op = "ndr_resolution"
    /\ response'.req.action = "DISPUTE"
    /\ response'.status = 200
    /\ now' = now
    /\ shipments' = shipments
    /\ \/ response' # response
       \/ orders' # orders
       \/ courier_events' # courier_events

\* C1: every stored CUSTOMER_UNAVAILABLE NDR event has proof_required = true
C1_CustomerUnavailableRequiresProof ==
    \A i \in Ids(courier_events) :
        IsCustomerUnavailableNdr(courier_events[i])
            => courier_events[i].proof_required

C1_Witness ==
    \E i \in Ids(courier_events) :
        /\ IsCustomerUnavailableNdr(courier_events[i])
        /\ courier_events[i].proof_required
        /\ shipments[courier_events[i].shipment_id].order_id = TestOrderId

\* C2: a stored event has proof_validated = true only if its GPS fix was
\* within 200 m of the delivery address of its shipment's order and its call
\* lasted at least 10 s; missing coordinates, a distance that cannot be
\* computed, a missing order or a missing address never pass.  (Under
\* SpecIngest no operation repoints an order's address, so the address now
\* is the address at ingestion.)
C2_ValidatedOnlyWithProof ==
    \A i \in Ids(courier_events) :
        courier_events[i].proof_validated =>
            /\ HasAddress(courier_events[i])
            /\ GpsWithin200m(courier_events[i],
                             AddressOfEvent(courier_events[i]))
            /\ CallAtLeast10s(courier_events[i])

C2_Witness ==
    \E i \in Ids(courier_events) :
        /\ courier_events[i].proof_validated
        /\ courier_events[i].gps_latitude = Some(1200)
        /\ courier_events[i].call_duration_sec = Some(10)

\* C3: every event ingested with an ndr_code other than CUSTOMER_UNAVAILABLE
\* is stored and answered with proof_required = false and
\* proof_validated = true
C3_OtherCodesVacuouslyValid ==
    /\ \A i \in Ids(courier_events) :
          courier_events[i].ndr_code # Some("CUSTOMER_UNAVAILABLE") =>
              /\ ~courier_events[i].proof_required
              /\ courier_events[i].proof_validated
    /\ (/\ response.op = "webhook_courier_event"
        /\ response.status = 200
        /\ response.req.ndr_code # Some("CUSTOMER_UNAVAILABLE"))
          => /\ ~response.body.proof_required
             /\ response.body.proof_validated

\* C4: for a CUSTOMER_UNAVAILABLE NDR event the validator returns
\* is_valid = gps_valid /\ call_valid, gps_valid exactly when the distance to
\* the address is at most 200 m and call_valid exactly when the call
\* duration is present and at least 10 s
C4_ValidatorDecidesByDistanceAndCall ==
    (/\ response.op = "validate_proof_of_attempt"
     /\ response.status = 200
     /\ IsCustomerUnavailableNdr(response.req.event))
      => /\ response.body.is_valid
              = (response.body.gps_valid /\ response.body.call_valid)
         /\ response.body.gps_valid
              = GpsWithin200m(response.req.event,
                              response.req.delivery_address)
         /\ response.body.call_valid = CallAtLeast10s(response.req.event)

\* C5: a CUSTOMER_UNAVAILABLE NDR event whose GPS fix is within 200 m of the
\* delivery address of its shipment's order and whose call lasted at least
\* 10 s is stored with proof_validated = true and answered so
C5_ProvenNdrIsValidated ==
    /\ \A i \in Ids(courier_events) :
          (/\ IsCustomerUnavailableNdr(courier_events[i])
           /\ HasAddress(courier_events[i])
           /\ GpsWithin200m(courier_events[i],
                            AddressOfEvent(courier_events[i]))
           /\ CallAtLeast10s(courier_events[i]))
             => courier_events[i].proof_validated
    /\ (response.op = "webhook_courier_event" /\ response.status = 200)
          => response.body.proof_validated
                = courier_events[response.body.event_id].proof_validated

\* C6: a CUSTOMER_UNAVAILABLE NDR ingest with a well-formed timestamp always
\* succeeds and stores exactly one event, with proof_required = true; when
\* the GPS or call check fails or the order or address is not found, the
\* event is stored and answered with proof_validated = false
C6_UnprovenNdrIsStoredUnvalidated ==
    [][ (/\ IngestStep
         /\ IsCustomerUnavailableNdr(response'.req)
         /\ response'.req.timestamp.iso)
        => LET e == Last(courier_events')
               found == ShipmentsByShipmentId(response'.req.shipment_id)
               proven ==
                   /\ found # {}
                   /\ HasAddress([shipment_id |-> First(found)])
                   /\ GpsWithin200m(response'.req,
                         AddressOfEvent([shipment_id |-> First(found)]))
                   /\ CallAtLeast10s(response'.req)
           IN /\ response'.status = 200
              /\ Len(courier_events') = Len(courier_events) + 1
              /\ \A i \in Ids(courier_events) :
                    courier_events'[i] = courier_events[i]
              /\ IsCustomerUnavailableNdr(e)
              /\ e.proof_required
              /\ response'.body.proof_required
              /\ ~proven => (~e.proof_validated
                                /\ ~response'.body.proof_validated)
      ]_vars

C6_Witness ==
    /\ response.op = "webhook_courier_event"
    /\ response.status = 200
    /\ IsCustomerUnavailableNdr(response.req)
    /\ response.req.gps_latitude = Some(1201)
    /\ HasAddress(courier_events[response.body.event_id])
    /\ ~courier_events[response.body.event_id].proof_validated

\* C7: an ingest request whose shipment_id matches no Shipment is rejected
\* and creates neither a Shipment nor a CourierEvent
C7_UnknownShipmentRejected ==
    [][ (IngestStep
           /\ ShipmentsByShipmentId(response'.req.shipment_id) = {})
        => /\ response'.status # 200
           /\ shipments' = shipments
           /\ courier_events' = courier_events
      ]_vars

\* C8: once an event is stored no operation deletes it or changes its
\* proof_required, proof_validated, event_code, ndr_code, GPS, call or
\* timestamp fields
Verdict(e) ==
    <<e.proof_required, e.proof_validated, e.shipment_id, e.event_code,
      e.ndr_code, e.gps_latitude, e.gps_longitude, e.call_duration_sec,
      e.timestamp>>
C8_VerdictWrittenOnce ==
    [][ /\ Len(courier_events') >= Len(courier_events)
        /\ \A i \in Ids(courier_events) :
              Verdict(courier_events'[i]) = Verdict(courier_events[i])
      ]_vars

C8_Witness ==
    \E i \in Ids(courier_events) :
        /\ courier_events[i].proof_validated
        /\ courier_events[i].overturned_within_2h
        /\ courier_events[i].challenged
        /\ Len(courier_events) > i

\* C9: a DISPUTE sets overturned_within_2h on the latest NDR event exactly
\* when at most 2 hours have elapsed since the event's timestamp
C9_DisputeWithinTwoHoursSetsFlag ==
    [][ DisputeStep
        => \A o \in OrdersByOrderId(response'.req.order_id) :
             \A s \in ShipmentsOfOrder(o) :
               s = First(ShipmentsOfOrder(o)) =>
                 \A e \in LatestNdrs(s) :
                   /\ now - courier_events[e].timestamp <= 120
                        => \E f \in LatestNdrs(s) :
                              courier_events'[f].overturned_within_2h
                   /\ now - courier_events[e].timestamp > 120
                        => courier_events'[e].overturned_within_2h
                              = courier_events[e].overturned_within_2h
      ]_vars

\* C10: every successful DISPUTE (here: of an order whose shipment has an
\* NDR event) leaves a Challenge record for that order and the order in
\* status NDR_CHALLENGED
C10_DisputeOpensChallenge ==
    (/\ response.op = "ndr_resolution"
     /\ response.status = 200
     /\ response.req.action = "DISPUTE")
      => \A o \in OrdersByOrderId(response.req.order_id) :
            ShipmentsWithNdr(o) # {} =>
                /\ orders[o].status = "NDR_CHALLENGED"
                /\ \E c \in Ids(ndr_challenges) :
                      ndr_challenges[c].order_id = response.req.order_id

\* C11: a DISPUTE that follows a successful DISPUTE of the same order, while
\* the order's latest NDR event is less than 2 hours old, succeeds and leaves
\* every event as the first DISPUTE left it; and no step resets
\* overturned_within_2h from true to false
RepeatedDisputeStep ==
    /\ response.op = "ndr_resolution"
    /\ response.status = 200
    /\ response.req.action = "DISPUTE"
    /\ response'.op = "ndr_resolution"
    /\ response'.req = response.req
    /\ now' = now
    /\ shipments' = shipments
    /\ addresses' = addresses
    /\ ndr_challenges' = ndr_challenges
    /\ \E o \in OrdersByOrderId(response.req.order_id) :
          /\ ShipmentsOfOrder(o) # {}
          /\ \E e \in Ids(courier_events) :
                /\ LatestNdrs(First(ShipmentsOfOrder(o))) = {e}
                /\ now - courier_events[e].timestamp < 120
C11_DisputeIdempotent ==
    [][ /\ \A i \in Ids(courier_events) :
              courier_events[i].overturned_within_2h
                  => /\ i \in Ids(courier_events')
                     /\ courier_events'[i].overturned_within_2h
        /\ RepeatedDisputeStep
              => /\ response'.status = 200
                 /\ courier_events' = courier_events
      ]_vars

\* a second DISPUTE, filed after the one that set the flag and while the
\* event is still less than 2 hours old, has left the flag set
C11_Witness ==
    /\ response.op = "ndr_resolution"
    /\ response.status = 200
    /\ response.req.action = "DISPUTE"
    /\ \E o \in OrdersByOrderId(response.req.order_id) :
          /\ ShipmentsOfOrder(o) # {}
          /\ orders[o].order_metadata # None
          /\ Val(orders[o].order_metadata).action = "DISPUTE"
          /\ \E e \in Ids(courier_events) :
                /\ LatestNdrs(First(ShipmentsOfOrder(o))) = {e}
                /\ courier_events[e].overturned_within_2h
                /\ now - courier_events[e].timestamp < 120
                /\ Val(orders[o].order_metadata).timestamp
                      - replace_tzinfo(courier_events[e].timestamp)
                   > DisputeWindowMin

\* C12: a resolve request whose order_id matches no Order is answered with
\* a 400-class status and changes no order, address, shipment or event
C12_UnknownOrderIs400 ==
    [][ (/\ response'.op = "ndr_resolution"
         /\ OrdersByOrderId(response'.req.order_id) = {})
        => /\ response'.status \in 400..499
           /\ orders' = orders
           /\ addresses' = addresses
           /\ shipments' = shipments
           /\ courier_events' = courier_events
      ]_vars

\* a step that served a successful resolve request
ResolveStep ==
    /\ response'.op = "ndr_resolution"
    /\ response'.status = 200
    /\ (response' # response \/ orders' # orders)

\* C13: every successful resolve appends one record to the order's metadata
\* trail and keeps every earlier record (the trail is the sequence of
\* resolution records held in order_metadata)
C13_ResolveAppendsToTrail ==
    [][ ResolveStep
        => \A o \in OrdersByOrderId(response'.req.order_id) :
             LET before == orders[o].order_metadata
                 after == orders'[o].order_metadata
             IN /\ Len(after) = Len(before) + 1
                /\ \A k \in 1..Len(before) : after[k] = before[k]
                /\ after[Len(after)].action = response'.req.action
      ]_vars

\* C14: a resolve request for an existing order that carries an invalid
\* payload or action (RESCHEDULE without a date or with a date that is not
\* in the future, CHANGE_ADDRESS without an address or with one lacking
\* line, city or pincode, an action outside the four known ones) is not
\* answered with success and changes no order and no address
InvalidResolution(request) ==
    \/ /\ request.action = "RESCHEDULE"
       /\ \/ request.reschedule_date = None
          \/ ~request.reschedule_date[1].iso
          \/ request.reschedule_date[1].wall
                 - (IF request.reschedule_date[1].offset = None THEN 0
                    ELSE request.reschedule_date[1].offset[1]) <= now
    \/ /\ request.action = "CHANGE_ADDRESS"
       /\ \/ request.new_address = None
          \/ request.new_address[1].line1 = ""
          \/ request.new_address[1].city = ""
          \/ request.new_address[1].pincode = ""
    \/ request.action \notin {"RESCHEDULE", "CHANGE_ADDRESS", "DISPUTE", "RTO"}
C14_InvalidResolutionRejected ==
    [][ (/\ response'.op = "ndr_resolution"
         /\ (response' # response \/ orders' # orders)
         /\ OrdersByOrderId(response'.req.order_id) # {}
         /\ InvalidResolution(response'.req))
        => /\ response'.status # 200
           /\ orders' = orders
           /\ addresses' = addresses
      ]_vars

\* C15: a successful RESCHEDULE with a valid date leaves the order with that
\* promised_delivery_date and status RESCHEDULE_REQUESTED; a successful
\* CHANGE_ADDRESS with a valid address leaves the order referencing the
\* address just created and with status ADDRESS_CHANGE_REQUESTED
C15_RescheduleAndChangeAddressEffects ==
    [][ (ResolveStep /\ ~InvalidResolution(response'.req))
        => \A o \in OrdersByOrderId(response'.req.order_id) :
             /\ response'.req.action = "RESCHEDULE"
                  => /\ orders'[o].promised_delivery_date
                          = <<response'.req.reschedule_date[1].wall
                               - response'.req.reschedule_date[1].offset[1]>>
                     /\ orders'[o].status = "RESCHEDULE_REQUESTED"
             /\ response'.req.action = "CHANGE_ADDRESS"
                  => /\ Len(addresses') = Len(addresses) + 1
                     /\ orders'[o].delivery_address_id = Len(addresses')
                     /\ orders'[o].status = "ADDRESS_CHANGE_REQUESTED"
      ]_vars

\* C16: every successful resolve with action RTO leaves the order with
\* status RTO_INITIATED and a shipment of the order with rto_initiated = true
C16_RtoSetsShipmentAndOrder ==
    [][ (ResolveStep /\ response'.req.action = "RTO")
        => \A o \in OrdersByOrderId(response'.req.order_id) :
             /\ orders'[o].status = "RTO_INITIATED"
             /\ \E sid \in Ids(shipments') :
                   /\ shipments'[sid].order_id = o
                   /\ shipments'[sid].rto_initiated
      ]_vars

\* C17: no step changes or removes a stored address, and every successful
\* CHANGE_ADDRESS adds exactly one address and repoints the order to it
AddressesKept ==
    \A a \in Ids(addresses) :
        a \in Ids(addresses') /\ addresses'[a] = addresses[a]
C17_ChangeAddressAddsOneAddress ==
    [][ /\ AddressesKept
        /\ (ResolveStep /\ response'.req.action = "CHANGE_ADDRESS")
              => \A o \in OrdersByOrderId(response'.req.order_id) :
                   /\ Len(addresses') = Len(addresses) + 1
                   /\ orders'[o].delivery_address_id = Len(addresses')
      ]_vars

\* C18: when CHANGE_ADDRESS repoints an order from Address A to a new
\* Address B, the proof context the order view reports for the order's
\* earlier NDR event (whose verdict was computed against A) still names A as
\* the required location and reports the same GPS validity as before (where
\* the view is computed at all, i.e. where the collection truth test passes)
ViewedProof(o) ==
    LET address_hit == {a \in Ids(addresses) :
                           a = orders[o].delivery_address_id}
    IN IF view_raises(o, address_hit) THEN {}
       ELSE {proof_validation(courier_events[i], address_hit) :
                i \in LastVisited(o, TRUE)}
C18_ViewKeepsVerdictAddress ==
    [][ (/\ ResolveStep
         /\ response'.req.action = "CHANGE_ADDRESS"
         /\ Len(addresses') = Len(addresses) + 1
         /\ ~collection_bool_raises)
        => \A o \in OrdersByOrderId(response'.req.order_id) :
             /\ ViewedProof(o)' = ViewedProof(o)
             /\ \A v \in ViewedProof(o)' :
                   v.required =
                     <<<<addresses[orders[o].delivery_address_id].latitude,
                         addresses[orders[o].delivery_address_id].longitude>>>>
      ]_vars

\* a step that served a challenge request
ChallengeStep ==
    /\ response'.op = "challenge_ndr"
    /\ (response' # response \/ ndr_challenges' # ndr_challenges)

\* C19: a challenge for an order that does not exist, or none of whose
\* shipments has an NDR event, is answered with a not-found error and creates
\* no Challenge, marks no event and leaves every order unchanged
C19_ChallengeWithoutNdrIsNotFound ==
    [][ (/\ ChallengeStep
         /\ \A o \in OrdersByOrderId(response'.req.order_id) :
                ShipmentsWithNdr(o) = {})
        => /\ response'.status = 404
           /\ ndr_challenges' = ndr_challenges
           /\ courier_events' = courier_events
           /\ orders' = orders
      ]_vars

\* C20: after a successful challenge the Challenge named in the response
\* exists with status UNDER_REVIEW, the NDR event it references is marked
\* challenged, and the order has status NDR_CHALLENGED; and every event
\* marked challenged names an existing Challenge that references it
C20_ChallengeLinksEventAndOrder ==
    /\ (response.op = "challenge_ndr" /\ response.status = 200)
          => /\ response.body.challenge_id \in Ids(ndr_challenges)
             /\ LET c == ndr_challenges[response.body.challenge_id]
                IN /\ c.status = "UNDER_REVIEW"
                   /\ c.ndr_event_id \in Ids(courier_events)
                   /\ courier_events[c.ndr_event_id].challenged
                   /\ courier_events[c.ndr_event_id].challenge_id
                         = <<response.body.challenge_id>>
                   /\ \A o \in OrdersByOrderId(c.order_id) :
                         orders[o].status = "NDR_CHALLENGED"
    /\ \A i \in Ids(courier_events) :
          courier_events[i].challenged
              => /\ courier_events[i].challenge_id # None
                 /\ courier_events[i].challenge_id[1] \in Ids(ndr_challenges)
                 /\ ndr_challenges[courier_events[i].challenge_id[1]]
                        .ndr_event_id = i

\* C30: for a CUSTOMER_UNAVAILABLE NDR event the validator reports at most
\* two violations, at most one about GPS (missing or too far, never both)
\* and at most one about the call, and none exactly when is_valid is true
GpsViolations ==
    {"Missing GPS coordinates",
     "GPS location not within 200m of delivery address"}
CallViolations == {"Call duration less than 10 seconds or missing"}
ViolationsIn(violations, kind) ==
    Cardinality({k \in 1..Len(violations) : violations[k] \in kind})
C30_AtMostOneViolationPerCheck ==
    (/\ response.op = "validate_proof_of_attempt"
     /\ response.status = 200
     /\ IsCustomerUnavailableNdr(response.req.event))
      => /\ Len(response.body.violations) <= 2
         /\ ViolationsIn(response.body.violations, GpsViolations) <= 1
         /\ ViolationsIn(response.body.violations, CallViolations) <= 1
         /\ ViolationsIn(response.body.violations, GpsViolations)
              + ViolationsIn(response.body.violations, CallViolations)
              = Len(response.body.violations)
         /\ (response.body.violations = <<>>) = response.body.is_valid

\* both checks failed: two violations, one of each kind
C30_Witness ==
    /\ response.op = "validate_proof_of_attempt"
    /\ response.status = 200
    /\ IsCustomerUnavailableNdr(response.req.event)
    /\ response.body.violations =
          <<"GPS location not within 200m of delivery address",
            "Call duration less than 10 seconds or missing">>
    /\ ~response.body.is_valid

\* C29: an order webhook or courier-event webhook that is answered with an
\* error has created no brand, address, order, item, shipment or event
C29_RejectedIngestChangesNothing ==
    [][ (/\ response' # response
         /\ response'.op \in {"webhook_order", "webhook_courier_event"}
         /\ response'.status # 200)
        => /\ brands' = brands
           /\ addresses' = addresses
           /\ orders' = orders
           /\ items' = items
           /\ shipments' = shipments
           /\ courier_events' = courier_events
      ]_vars

(***************************************************************************)
(* Seller dashboard and scorecard                                          *)
(***************************************************************************)
StoreUnchanged ==
    UNCHANGED <<brands, addresses, orders, items, shipments, courier_events,
                ndr_challenges>>

\* a dashboard computed from the store is answered in this step
DashboardStep ==
    /\ StoreUnchanged
    /\ response'.op = "get_seller_dashboard"
    /\ ~response'.body.fallback

RECURSIVE SumTotalOrders(_)
SumTotalOrders(breakdown) ==
    IF breakdown = {} THEN 0
    ELSE LET entry == CHOOSE entry \in breakdown : TRUE
         IN entry.total_orders + SumTotalOrders(breakdown \ {entry})

ShipmentsOfCarrier(brand_id, carrier) ==
    {sid \in Ids(shipments) :
        /\ shipments[sid].carrier = carrier
        /\ \E o \in Ids(orders) : /\ orders[o].brand_id = brand_id
                                  /\ shipments[sid].order_id = o}

\* rate, in hundredths of a percent, is delivered / total * 100 to two places
IsPercentage(rate, delivered, total) ==
    IF total = 0 THEN rate = 0
    ELSE /\ 2 * (rate * total - delivered * 10000) <= total
         /\ 2 * (delivered * 10000 - rate * total) <= total

CarrierRatesExact ==
    \A entry \in response'.body.carrier_breakdown :
        LET sids == ShipmentsOfCarrier(response'.req.brand_id, entry.carrier)
        IN IsPercentage(entry.success_rate,
                        Cardinality({sid \in sids :
                            shipments[sid].current_status = "DELIVERED"}),
                        Cardinality(sids))

\* C23: every dashboard computed from the store reports, for each carrier, a
\* success_rate equal to delivered / total * 100 of that carrier's shipments
\* (0 when it has none), and the total_orders of the carrier breakdown sum
\* to the dashboard's total_orders.
C23_BreakdownSumsToTotal ==
    [][ DashboardStep
        => /\ CarrierRatesExact
           /\ SumTotalOrders(response'.body.carrier_breakdown)
                 = response'.body.total_orders ]_vars

\* C23, the part that holds: each carrier's success_rate is its
\* delivered / total * 100.
C23_CarrierRatesExact ==
    [][ DashboardStep => CarrierRatesExact ]_vars

\* the counts the dashboard reports for a brand
DashboardCounts(brand_id) ==
    LET dashboard == seller_dashboard(brand_id)
    IN [total_orders |-> dashboard.total_orders,
        successful_deliveries |-> dashboard.successful_deliveries,
        verified_ndrs |-> dashboard.verified_ndrs,
        suspicious_ndrs |-> dashboard.suspicious_ndrs,
        rto_prevented |-> dashboard.rto_prevented]

\* C24: the seller dashboard is a function of the CourierEvent log only: a
\* step that leaves the event log as it was leaves every brand's
\* total_orders, delivered, verified, suspicious and rto_prevented counts as
\* they were, whatever else it changes in the store.
C24_DashboardFunctionOfEventLog ==
    [][ courier_events' = courier_events
        => \A brand_id \in BrandIds :
              DashboardCounts(brand_id)' = DashboardCounts(brand_id) ]_vars

\* the shipments of a carrier to a pincode that the event log refers to
IngestedShipments(carrier, dest_pin) ==
    {sid \in Ids(shipments) :
        /\ shipments[sid].carrier = carrier
        /\ shipments[sid].order_id \in Ids(orders)
        /\ addresses[orders[shipments[sid].order_id].delivery_address_id].pincode
              = dest_pin
        /\ \E i \in Ids(courier_events) : courier_events[i].shipment_id = sid}

\* C25: every bucket the carrier scorecard returns has a total that equals
\* the recompute from the ingested event log; in particular the scorecard
\* returns no bucket for which nothing was ingested.
C25_ScorecardEqualsRecompute ==
    [][ (StoreUnchanged /\ response'.op = "get_weekly_scorecard")
        => \A bucket \in response'.body :
              /\ IngestedShipments(bucket.carrier, bucket.dest_pin) # {}
              /\ bucket.total_shipments
                    = Cardinality(IngestedShipments(bucket.carrier,
                                                    bucket.dest_pin)) ]_vars

(***************************************************************************)
(* Failures of the store                                                   *)
(***************************************************************************)
\* C22: no failure is answered with a fabricated success: a success of the
\* challenge endpoint carries the id of a stored Challenge, and a success of
\* the seller dashboard carries the metrics computed from the store.
C22_NoFabricatedSuccess ==
    [][ /\ (/\ response' # response
            /\ response'.op = "challenge_ndr"
            /\ response'.status = 200)
           => response'.body.challenge_id \in Ids(ndr_challenges')
        /\ (/\ StoreUnchanged
            /\ response'.op = "get_seller_dashboard"
            /\ response'.status = 200)
           => response'.body = seller_dashboard(response'.req.brand_id)
      ]_vars

\* a persistence step of openChallenge or of a resolve action failed in
\* this step: the challenge endpoint answers its fallback, the resolution
\* endpoint an error
FailedTransition ==
    /\ response' # response
    /\ \/ /\ response'.op = "challenge_ndr"
          /\ response'.status = 200
          /\ response'.body.challenge_id = FallbackChallengeId
       \/ /\ response'.op = "ndr_resolution"
          /\ response'.status # 200

\* C21: each transition is all-or-nothing: when openChallenge or a resolve
\* action fails at one of its persistence steps, none of its writes remains
\* in the store.
C21_FailedTransitionLeavesNothing ==
    [][ FailedTransition => StoreUnchanged ]_vars

(***************************************************************************)
(* The resolution state machine                                            *)
(***************************************************************************)
OpenStatuses ==
    {"RESCHEDULE_REQUESTED", "ADDRESS_CHANGE_REQUESTED",
     "SELF_PICKUP_REQUESTED", "RTO_INITIATED"}
TerminalStatuses == {"DELIVERED", "RTO_COMPLETED", "NDR_CHALLENGED"}

\* C26: every change of Order.status is an edge of the resolution state
\* machine: an order enters RESCHEDULE_REQUESTED, ADDRESS_CHANGE_REQUESTED,
\* SELF_PICKUP_REQUESTED or RTO_INITIATED only from NDR_OPEN, and a terminal
\* status (DELIVERED, RTO_COMPLETED, NDR_CHALLENGED) is never changed.
C26_StatusChangesAreEdges ==
    [][ \A o \in Ids(orders) :
          orders'[o].status # orders[o].status
          => /\ orders'[o].status \in OpenStatuses
                => orders[o].status = "NDR_OPEN"
             /\ orders[o].status \notin TerminalStatuses ]_vars

\* a resolve request for the order is accepted in this step
ResolutionAccepted(o) ==
    /\ response' # response
    /\ response'.op = "ndr_resolution"
    /\ response'.status = 200
    /\ response'.req.order_id = orders[o].order_id

\* C27: an order has at most one open resolution action at a time: no
\* resolution action is accepted for an order whose earlier resolution is
\* still open (its status is one of the non-terminal resolution statuses).
C27_OneOpenResolutionPerOrder ==
    [][ \A o \in Ids(orders) :
          ResolutionAccepted(o) => orders[o].status \notin OpenStatuses
      ]_vars

(***************************************************************************)
(* Serialization of requests on one order                                  *)
(***************************************************************************)
\* What one request, served alone, makes of a store.  The documents it
\* looks up (the order by order_id, its shipments, their NDR events and
\* timestamps) are written by neither request, so the lookups are the same
\* in every store of the run.
challenge_applied(store, challenge, ndr_event) ==
    LET hit == OrdersByOrderId(challenge.order_id) IN
    IF collection_bool_raises \/ hit = {} \/ ShipmentsWithNdr(First(hit)) = {}
    THEN store
    ELSE [store EXCEPT
            !.ndr_challenges = Append(@,
                [order_id |-> challenge.order_id,
                 ndr_event_id |-> ndr_event,
                 challenge_reason |-> challenge.challenge_reason,
                 status |-> "UNDER_REVIEW",
                 resolution |-> None]),
            !.courier_events[ndr_event] =
                challenge_update(@, Len(store.ndr_challenges) + 1),
            !.orders[First(hit)].status = "NDR_CHALLENGED"]

rto_applied(store, request) ==
    LET hit == OrdersByOrderId(request.order_id)
        of_order == ShipmentsOfOrder(First(hit))
    IN
    IF hit = {} THEN store
    ELSE IF of_order = {}
    THEN [store EXCEPT
            !.orders[First(hit)].order_metadata =
                Some(resolution_data(request, None, None))]
    ELSE [store EXCEPT
            !.shipments[First(of_order)].rto_initiated = TRUE,
            !.orders[First(hit)].status = "RTO_INITIATED",
            !.orders[First(hit)].order_metadata =
                Some(resolution_data(request, None, None))]

\* the NDR events a challenge can pick as the latest (0: it picks none)
LatestOf(request) ==
    LET hit == OrdersByOrderId(request.req.order_id) IN
    IF /\ request.op = "challenge_ndr"
       /\ hit # {}
       /\ ShipmentsWithNdr(First(hit)) # {}
    THEN LatestNdrs(First(ShipmentsWithNdr(First(hit))))
    ELSE {0}

applied(store, request, ndr_event) ==
    IF request.op = "challenge_ndr"
    THEN challenge_applied(store, request.req, ndr_event)
    ELSE rto_applied(store, request.req)

\* the stores reached by serving `first` and then `second`
OneAfterTheOther(first, second) ==
    {applied(applied(inflight.base, first, e1), second, e2) :
        e1 \in LatestOf(first), e2 \in LatestOf(second)}

BothDone ==
    /\ inflight # <<>>
    /\ \A i \in {1, 2} : inflight.requests[i].pc = "done"

\* C28: operations on the same order are serialized: when two concurrent
\* resolve / openChallenge requests have both finished, the order, shipment,
\* event and challenge state is the one that serving the two requests one
\* after the other, in one of the two orders, produces.
C28_ConcurrentEqualsSerial ==
    BothDone
    => Store \in OneAfterTheOther(inflight.requests[1], inflight.requests[2])
                 \cup
                 OneAfterTheOther(inflight.requests[2], inflight.requests[1])

(***************************************************************************)
(* Disputes without an NDR                                                 *)
(***************************************************************************)
\* the stored order named by order_id has no NDR event on any shipment
\* (in particular when it has no shipment)
OrderWithoutNdr(order_id) ==
    /\ OrdersByOrderId(order_id) # {}
    /\ \A sid \in ShipmentsOfOrder(First(OrdersByOrderId(order_id))) :
          NdrEventsOfShipment(sid) = {}

\* C31: a resolve with action DISPUTE for an existing order that has no
\* shipment, or whose shipment has no NDR event, is rejected with a
\* not-found error and changes nothing in the store.
C31_DisputeWithoutNdrRejected ==
    [][ (/\ response' # response
         /\ response'.op = "ndr_resolution"
         /\ response'.req.action = "DISPUTE"
         /\ OrderWithoutNdr(response'.req.order_id))
        => /\ response'.status \in {400, 404}
           /\ StoreUnchanged ]_vars

(***************************************************************************)
(* overturned_flag                                                         *)
(***************************************************************************)
\* the event is referenced by a Challenge that was resolved
ResolvedChallengeOf(i, challenges) ==
    \E c \in Ids(challenges) :
        /\ challenges[c].ndr_event_id = i
        /\ challenges[c].status = "RESOLVED"

\* C32: overturned_flag is set only by an accepted Challenge resolution:
\* after every step an event with overturned_flag = true is referenced by a
\* Challenge with status RESOLVED, and no step of ingestion, DISPUTE or
\* openChallenge turns the flag of an event to true.
C32_OverturnedOnlyByResolvedChallenge ==
    [][ \A i \in Ids(courier_events') :
          courier_events'[i].overturned_flag
          => /\ ResolvedChallengeOf(i, ndr_challenges')
             /\ i \in Ids(courier_events)
             /\ courier_events[i].overturned_flag ]_vars

\* an event that was disputed within the window and challenged keeps
\* overturned_flag = false
C32_Witness ==
    \E i \in Ids(courier_events) :
        /\ courier_events[i].overturned_within_2h
        /\ courier_events[i].challenged
        /\ ~courier_events[i].overturned_flag

(***************************************************************************)
(* Coordinates equal to zero                                               *)
(***************************************************************************)
CoordinatesPresent(e, a) ==
    /\ e.gps_latitude # None /\ e.gps_longitude # None
    /\ a.latitude # None /\ a.longitude # None

ReportsMissingGps(violations) ==
    \E k \in 1..Len(violations) : violations[k] = "Missing GPS coordinates"

\* C33: whenever all four coordinates are present, also when one of them is
\* 0, the validator decides gps_valid from the distance, and it reports
\* "Missing GPS coordinates" only when a coordinate is absent.
C33_ZeroIsACoordinate ==
    (/\ response.op = "validate_proof_of_attempt"
     /\ response.status = 200
     /\ IsCustomerUnavailableNdr(response.req.event))
      => LET e == response.req.event
             a == response.req.delivery_address
         IN /\ CoordinatesPresent(e, a)
                 => response.body.gps_valid = GpsWithin200m(e, a)
            /\ ReportsMissingGps(response.body.violations)
                 => ~CoordinatesPresent(e, a)

(***************************************************************************)
(* Placeholder shipments                                                   *)
(***************************************************************************)
\* the shipment the ingestion created for an unknown shipment_id
IsPlaceholder(sid) ==
    sid \in Ids(shipments) /\ shipments[sid].order_id = TestOrderId

NdrEventsOfOrder(oid) ==
    {i \in Ids(courier_events) :
        /\ courier_events[i].event_code = "NDR"
        /\ courier_events[i].shipment_id \in ShipmentsOfOrder(oid)}

\* the NDR events with the greatest timestamp among all of the order's
LatestNdrsOfOrder(oid) ==
    {i \in NdrEventsOfOrder(oid) :
        \A j \in NdrEventsOfOrder(oid) :
            courier_events[j].timestamp <= courier_events[i].timestamp}

\* a DISPUTE or an openChallenge is served in this step
FlaggingStep ==
    /\ response' # response
    /\ response'.status = 200
    /\ \/ response'.op = "challenge_ndr"
       \/ response'.op = "ndr_resolution" /\ response'.req.action = "DISPUTE"

\* C37: DISPUTE and openChallenge act on the order's most recent NDR event:
\* the event they flag has the greatest timestamp among all NDR events of
\* all shipments of the order.
C37_FlagsLatestNdrOfOrder ==
    [][ FlaggingStep
        => \A i \in Ids(courier_events) :
              courier_events'[i] # courier_events[i]
              => i \in LatestNdrsOfOrder(
                          First(OrdersByOrderId(response'.req.order_id)))
      ]_vars

(***************************************************************************)
(* Concurrent ingestion for an unknown shipment                            *)
(***************************************************************************)
\* both requests are ingestions for one shipment_id that no shipment of the
\* store they started from carries
SameUnknownShipment ==
    /\ BothDone
    /\ \A i \in {1, 2} : inflight.requests[i].op = "webhook_courier_event"
    /\ inflight.requests[1].req.shipment_id
          = inflight.requests[2].req.shipment_id
    /\ \A sid \in Ids(inflight.base.shipments) :
          inflight.base.shipments[sid].shipment_id
             # inflight.requests[1].req.shipment_id

\* C39: when two concurrent ingestions for the same previously unknown
\* shipment_id have finished, the store holds at most one Shipment for it
\* and each ingestion has its event stored against that Shipment.
C39_ConcurrentIngestKeepsBothEvents ==
    SameUnknownShipment
    => LET of_id == ShipmentsByShipmentId(
                       inflight.requests[1].req.shipment_id)
       IN /\ Cardinality(of_id) <= 1
          /\ \A i \in {1, 2} :
                /\ inflight.requests[i].event_id \in Ids(courier_events)
                /\ courier_events[inflight.requests[i].event_id].shipment_id
                      \in of_id

\* the last request served was a trigger-ndr that sent the options
OptionsSentByTrigger ==
    /\ response.op = "trigger_ndr_resolution"
    /\ response.status = 200
    /\ response.body.sent

\* the step is a webhook message from the triggered phone choosing 1, 2 or 3
ReplyToTrigger ==
    /\ OptionsSentByTrigger
    /\ response'.op = "whatsapp_webhook"
    /\ response'.req.phone_number = response.req.customer_phone
    /\ response'.req.message \in {"1", "2", "3"}

\* C34: once trigger-ndr has sent the options for order O to phone P, the
\* pending-responses listing holds P's request, and a webhook message from P
\* choosing 1, 2 or 3 sets O's status to RESCHEDULE_REQUESTED,
\* ADDRESS_CHANGE_REQUESTED or SELF_PICKUP_REQUESTED respectively.
C34_ReplyAfterTriggerResolves ==
    [][/\ OptionsSentByTrigger =>
            \E entry \in active_pending :
                entry.order_id = response.req.order_id
       /\ ReplyToTrigger =>
            \A o \in Ids(orders') :
                orders'[o].order_id = response.req.order_id =>
                    Some(orders'[o].status) = handler_status(
                        response_type(strip_lower(response'.req.message)))
      ]_vars

\* the step serves process_customer_response on the module-level service
ReplyStep ==
    /\ response'.op = "process_customer_response"
    /\ now' = now

\* the entry of the phone is PENDING
IsPending(pending, phone) ==
    /\ ~IsNone(pending[phone])
    /\ Val(pending[phone]).status = "PENDING"

IsCompleted(pending, phone) ==
    /\ ~IsNone(pending[phone])
    /\ Val(pending[phone]).status = "COMPLETED"

\* C38: on one service, a message that is HELP or unrecognised leaves the
\* phone's entry PENDING and changes no order; a recognised choice (1-4) on
\* a PENDING entry marks it COMPLETED; a message from a phone whose entry is
\* not PENDING is answered as a general message and changes neither the
\* orders nor the entry; and only sending new options makes a COMPLETED
\* entry PENDING again.
C38_OneResolutionPerPending ==
    [][/\ ReplyStep =>
            LET phone == response'.req.phone_number
                choice == response_type(strip_lower(response'.req.message))
            IN
            /\ (IsPending(pending_responses, phone)
                    /\ choice \in {"HELP", ""}) =>
                  /\ pending_responses' = pending_responses
                  /\ orders' = orders
                  /\ response'.body.action
                        \in {"help_sent", "clarification_sent"}
            /\ (IsPending(pending_responses, phone)
                    /\ choice \notin {"HELP", ""}) =>
                  IsCompleted(pending_responses', phone)
            /\ ~IsPending(pending_responses, phone) =>
                  /\ response'.body.action = "general_response_sent"
                  /\ pending_responses' = pending_responses
                  /\ orders' = orders
       /\ \A phone \in Phones :
            (IsCompleted(pending_responses, phone)
                /\ IsPending(pending_responses', phone)) =>
                  /\ response'.op = "send_ndr_resolution_options"
                  /\ response'.req.customer_phone = phone
      ]_vars

\* C38 witness: a choice was applied to the order, the entry is COMPLETED,
\* and a later recognised message from the phone got the general answer
C38_Witness ==
    /\ \E phone \in Phones :
          /\ IsCompleted(pending_responses, phone)
          /\ response.op = "process_customer_response"
          /\ response.req.phone_number = phone
          /\ response.req.message = "3"
          /\ response.body.action = "general_response_sent"
    /\ \E o \in Ids(orders) : orders[o].status = "RESCHEDULE_REQUESTED"

\* the options for the phone were sent more than 2 hours ago
IsExpired(pending, phone) ==
    /\ ~IsNone(pending[phone])
    /\ now - Val(pending[phone]).sent_at > PendingExpiryMin

\* C35: a reply that arrives more than 2 hours after the options were sent
\* is not handled as a resolution choice and changes no order, and the
\* pending-responses listing holds only entries that are PENDING and at
\* most 2 hours old.
C35_PendingExpiresAfterTwoHours ==
    [][/\ (ReplyStep
             /\ IsExpired(pending_responses, response'.req.phone_number)) =>
            /\ orders' = orders
            /\ response'.body.action \in
                  {"general_response_sent", "help_sent",
                   "clarification_sent"}
       /\ response'.op = "get_pending_responses" =>
            \A entry \in response'.body :
                /\ now' - entry.sent_at <= PendingExpiryMin
                /\ \E phone \in Phones :
                      /\ masked(phone) = entry.phone
                      /\ IsPending(pending_responses', phone)
      ]_vars

\* the reply that chooses the action in the WhatsApp menu
reply_for(action) ==
    CASE action = "RESCHEDULE" -> "1"
      [] action = "CHANGE_ADDRESS" -> "2"
      [] action = "RTO" -> "4"

\* the orders after a WhatsApp reply choosing the action for the order,
\* sent from the current state to a service that awaits the reply
orders_after_reply(order_id, action) ==
    orders_after(
        customer_response(
            send_options(NewServicePending, order_id,
                         CHOOSE phone \in Phones : TRUE).pending,
            CHOOSE phone \in Phones : TRUE,
            reply_for(action)))

\* C36: whenever the resolve endpoint accepts RESCHEDULE, CHANGE_ADDRESS or
\* RTO for an order, the order's status and every shipment's rto_initiated
\* flag afterwards are the ones a WhatsApp reply choosing the same action
\* would have left from the same state (a reply writes no shipment).
C36_ChannelIndependentResolution ==
    [][ \A o \in Ids(orders) :
          (ResolutionAccepted(o)
              /\ response'.req.action
                    \in {"RESCHEDULE", "CHANGE_ADDRESS", "RTO"}) =>
             /\ orders'[o].status =
                   orders_after_reply(orders[o].order_id,
                                      response'.req.action)[o].status
             /\ \A sid \in Ids(shipments) :
                   shipments'[sid].rto_initiated
                      = shipments[sid].rto_initiated
      ]_vars

=============================================================================
